---- MODULE Spec2Model ----
(***************************************************************************)
(* The National Ledger of nova_syntheia: the ledger_entries table          *)
(* (ledger/models.py) and LedgerService (ledger/service.py) used by        *)
(* several concurrent callers.  Each caller runs initialize(), append()    *)
(* or verify_chain(); every database round trip of a call is one step, so  *)
(* calls of different callers interleave between their SELECT and their    *)
(* INSERT/COMMIT.                                                          *)
(*                                                                         *)
(* SHA-256 is modelled as a collision-free digest: a digest is the record  *)
(* [sha256 |-> input] of its input.  uuid4() is modelled as a fresh        *)
(* identifier taken from a counter.                                        *)
(***************************************************************************)
EXTENDS Integers, Sequences, FiniteSets, TLC

\* ---------------------------------------------------------------- bounds
NumCallers == 2
MaxCalls == 3
MaxClock == 1
NumTuples == 2

Procs == 1..NumCallers

\* ------------------------------------------------------------- constants
\* Python None / SQL NULL in a UUID column; identifiers are 1, 2, ...
None == 0

\* "0" * 64: the string of 64 characters "0"
GENESIS_HASH == [zeros |-> 64]

\* ------------------------------------------------- caller-supplied inputs
\* A content dict is a sequence of <<key, value>> pairs in insertion order;
\* keys are numbered in their lexicographic order.  A value is a number, a
\* string, a nested dict, or an object that json does not know (a UUID, a
\* datetime) given by its str().
Num(n) == [t |-> "num", v |-> n]
Str(s) == [t |-> "str", v |-> s]
Dict(d) == [t |-> "dict", v |-> d]
Obj(s) == [t |-> "obj", v |-> s]

ContentAlpha == << <<1, Str("alpha")>> >>
ContentBeta == << <<1, Str("beta")>> >>
ContentTwoKeys == << <<2, Num(1)>>, <<1, Str("alpha")>> >>
GenesisContent ==
    << <<4, Str("Genesis of the National Ledger of Nova Syntheia")>>,
       <<3, Str("This entry establishes the permanent institutional record")>>,
       <<2, Dict(<< <<3, Num(1)>>, <<1, Num(1)>>, <<2, Num(1)>> >>)>>,
       <<1, Str("Article VIII")>> >>

CallerMemberId == 900

\* ------------------------------------------------------------ Hash Engine
\* json.dumps(..., sort_keys=True) of a dict: the pairs in ascending key order.
RECURSIVE SortKeys(_)
SortKeys(d) ==
    IF d = << >> THEN << >>
    ELSE LET i == CHOOSE i \in 1..Len(d) : \A j \in 1..Len(d) : d[i][1] <= d[j][1]
         IN  << d[i] >> \o SortKeys([k \in 1..(Len(d) - 1) |-> IF k < i THEN d[k] ELSE d[k + 1]])

\* json.dumps without sort_keys: the pairs in the order the dict holds them
RECURSIVE json_dumps_Unsorted(_)
json_dumps_Unsorted(x) ==
    IF x.t = "dict"
    THEN Dict([i \in 1..Len(x.v) |-> << x.v[i][1], json_dumps_Unsorted(x.v[i][2]) >>])
    ELSE IF x.t = "obj" THEN Str(x.v)
    ELSE x

\* json.dumps(value, sort_keys=True, default=str): the keys of every dict, at
\* any depth, in sorted order; an object json does not know replaced by the
\* string str() gives for it
RECURSIVE json_dumps(_)
json_dumps(x) ==
    IF x.t = "dict"
    THEN LET s == SortKeys(x.v)
         IN  Dict([i \in 1..Len(s) |-> << s[i][1], json_dumps(s[i][2]) >>])
    ELSE IF x.t = "obj" THEN Str(x.v)
    ELSE x

\* hashlib.sha256(...).hexdigest(), collision free: the digest is written
\* as the input it is the digest of
sha256(input) == [sha256 |-> input]

\* a hash input without emergency_designation
_compute_hash_OmitsEmergency(entry_id, sequence_number, previous_hash, timestamp, entry_type, author_role, author_member_id, content, supersedes, emergency_designation) ==
    LET canonical ==
            << author_member_id,
               author_role,
               json_dumps(Dict(content)),
               entry_type,
               entry_id,
               previous_hash,
               sequence_number,
               IF supersedes # None THEN supersedes ELSE None,
               timestamp >>
    IN  sha256(<< previous_hash, canonical >>)

_compute_hash(entry_id, sequence_number, previous_hash, timestamp, entry_type, author_role, author_member_id, content, supersedes, emergency_designation) ==
    LET canonical ==
            \* keys of `hashable` in sorted order
            << author_member_id,
               author_role,
               json_dumps(Dict(content)),
               emergency_designation,
               entry_type,
               entry_id,
               previous_hash,
               sequence_number,
               IF supersedes # None THEN supersedes ELSE None,
               timestamp >>
    IN  sha256(<< previous_hash, canonical >>)

\* verify_chain passing author_role and entry_type in each other's place
HashOf_SwappedArgs(e) ==
    _compute_hash(e.id, e.sequence_number, e.previous_hash, e.timestamp,
                  e.author_role, e.entry_type, e.author_member_id, e.content,
                  e.supersedes, e.emergency_designation)

\* verify_chain's recomputation of the hash of a stored row
HashOf(e) ==
    _compute_hash(e.id, e.sequence_number, e.previous_hash, e.timestamp,
                  e.entry_type, e.author_role, e.author_member_id, e.content,
                  e.supersedes, e.emergency_designation)

\* ------------------------------------------------------------------ state
VARIABLES
    tableExists,   \* Base.metadata.create_all has run
    entries,       \* rows of ledger_entries
    pc,            \* position of each caller inside its current call
    args,          \* arguments of the caller's current append()
    last_entry,    \* append(): the tip read by the caller, << >> or <<row>>
    entry,         \* append(): the LedgerEntryDB built by the caller
    result,        \* outcome of the caller's last finished call
    attempts,      \* tip reads made by the caller's current/last append()
    verifyResult,  \* value returned by the last verify_chain()
    clock,         \* datetime.now(timezone.utc)
    nextId,        \* next value of uuid4()
    calls,         \* calls started so far
    original,      \* << >>, or <<rows>> as they were before a direct storage edit
    tuples,        \* Hash Engine alone: the two entry field tuples it is given
    digests,       \* Hash Engine alone: the digest computed for each tuple
    latest,        \* value returned by the last get_latest_entries()
    tiers,         \* PermissionEngine.tiers: tier id -> PermissionTier
    permission,    \* PermissionCheckResult of the last check_permission()
    active_sessions, \* DeliberativeCycleManager.active_sessions: id -> cycle
    _cycle_counter,  \* DeliberativeCycleManager._cycle_counter
    cyclePc,       \* << >>, or the manager call in progress and its arguments
    cycleResult,   \* outcome of the last finished manager call
    now,           \* datetime.utcnow() as read by the manager
    agent,         \* the agent as constructed: tier id, ledger and citation service
    agentPc,       \* position of the agent inside execute_action
    frame,         \* locals of the running (or last) execute_action call
    agentResult,   \* what the last execute_action returned or raised
    action_history, \* BaseConstitutionalAgent.action_history
    model_digests, \* i |-> << >> or <<LedgerEntry(tuples[i]).compute_hash()>>
    active_emergencies, \* EmergencyPowersManager.active_emergencies: the ids it holds
    history,       \* EmergencyPowersManager.history
    emergencyResult, \* what the last call of the emergency manager returned
    custodianPc,   \* << >>, or <<verify_chain()'s answer>> inside _handle_verify
    _last_verification, \* LedgerCustodianAgent._last_verification
    active_notices, \* DueProcessManager.active_notices: id -> notice
    notice_history, \* DueProcessManager.history: the ids in order of issue
    noticeResult   \* outcome of the last call of the due process manager

\* the variables of the Hash Engine taken alone; no call of the service
\* touches them
hashVars == << tuples, digests, model_digests >>

\* the variables of the components around the ledger service; no call of
\* the service touches them
cycleVars == << active_sessions, _cycle_counter, cyclePc, cycleResult, now >>

agentVars == << agent, agentPc, frame, agentResult, action_history >>

emergencyVars == << active_emergencies, history, emergencyResult, custodianPc,
                   _last_verification >>

noticeVars == << active_notices, notice_history, noticeResult >>

governanceVars == << emergencyVars, noticeVars >>

otherVars == << latest, tiers, permission, cycleVars, agentVars, governanceVars >>

\* the variables of the ledger service and of the direct storage edits
ledgerVars == << tableExists, entries, pc, args, last_entry, entry, result, attempts,
                 verifyResult, clock, nextId, calls, original >>

vars == << tableExists, entries, pc, args, last_entry, entry, result, attempts,
           verifyResult, clock, nextId, calls, original, tuples, digests, latest,
           tiers, permission, active_sessions, _cycle_counter, cyclePc, cycleResult, now,
           agent, agentPc, frame, agentResult, action_history, model_digests,
           active_emergencies, history, emergencyResult, custodianPc, _last_verification,
           active_notices, notice_history, noticeResult >>

NoResult == [status |-> "none", entry |-> << >>]
NoVerify == [raised |-> FALSE, valid |-> FALSE, verified |-> -1, message |-> "not run"]

\* the service after LedgerService(database_url), on a fresh database
InitLedger ==
    /\ tableExists = FALSE
    /\ entries = {}
    /\ pc = [p \in Procs |-> "idle"]
    /\ args = [p \in Procs |-> << >>]
    /\ last_entry = [p \in Procs |-> << >>]
    /\ entry = [p \in Procs |-> << >>]
    /\ result = [p \in Procs |-> NoResult]
    /\ attempts = [p \in Procs |-> 0]
    /\ verifyResult = NoVerify
    /\ clock = 0
    /\ nextId = 1
    /\ calls = 0
    /\ original = << >>

NoLatest == [raised |-> FALSE, rows |-> << >>]

\* ActionType values that are modelled
Actions == { "portfolio_trade", "issue_opinion" }

\* FOUNDING_PERMISSION_TIERS, for the modelled actions: "tier_1" (Advisory -
\* Judicial) and "tier_founder" (Founding Authority)
FOUNDING_PERMISSION_TIERS ==
    [id \in {"tier_1", "tier_founder"} |->
        IF id = "tier_1"
        THEN [autonomous_actions |-> {"issue_opinion"}, requires_approval |-> {},
              forbidden_actions |-> {"portfolio_trade"}, irreversible_threshold |-> 0]
        ELSE [autonomous_actions |-> {}, requires_approval |-> {},
              forbidden_actions |-> {}, irreversible_threshold |-> 50]]

NoPermission == [decision |-> "none", tier_id |-> "none", action_type |-> "none", dollar_amount |-> << >>]

\* DeliberativeCycleManager.__init__
InitCycle ==
    /\ active_sessions = << >>
    /\ _cycle_counter = 0
    /\ cyclePc = << >>
    /\ cycleResult = "none"
    /\ now = 0

\* BaseConstitutionalAgent.__init__ with its defaults: no citation service, no
\* ledger service
DefaultAgent == [permission_tier_id |-> "tier_1", citation_service |-> FALSE,
                 ledger_service |-> FALSE]

NoFrame == [action_type |-> "none", dollar_amount |-> << >>, perm_result |-> NoPermission,
            citations |-> << >>, invoked |-> FALSE]

NoAgentResult == [status |-> "none", ledger_entry_id |-> None]

\* no execute_action call made yet
AgentIdle ==
    /\ agentPc = "idle"
    /\ frame = NoFrame
    /\ agentResult = NoAgentResult
    /\ action_history = << >>

\* EmergencyPowersManager.__init__ and LedgerCustodianAgent.__init__
NoEmergencyResult == [op |-> "none", value |-> << >>]

InitEmergency ==
    /\ active_emergencies = {}
    /\ history = << >>
    /\ emergencyResult = NoEmergencyResult
    /\ custodianPc = << >>
    /\ _last_verification = << >>

NoNoticeResult == [op |-> "none", notice_id |-> 0, raised |-> "None"]

\* DueProcessManager.__init__
InitDueProcess ==
    /\ active_notices = << >>
    /\ notice_history = << >>
    /\ noticeResult = NoNoticeResult

\* nothing read yet, the permission engine with its default tiers, the cycle
\* manager without sessions, the agent before its first action, the emergency
\* and due process managers without records
InitOther ==
    /\ latest = NoLatest
    /\ tiers = FOUNDING_PERMISSION_TIERS
    /\ permission = NoPermission
    /\ InitCycle
    /\ agent = DefaultAgent
    /\ AgentIdle
    /\ InitEmergency
    /\ InitDueProcess

Init ==
    /\ InitLedger
    /\ InitOther
    /\ tuples = << >>
    /\ digests = << >>
    /\ model_digests = << >>

\* ------------------------------------------------------------ the table
\* verify_chain reading the rows with order_by(sequence_number.desc())
RECURSIVE OrderBySeq_Desc(_)
OrderBySeq_Desc(rows) ==
    IF rows = {} THEN << >>
    ELSE LET first == CHOOSE r \in rows : \A s \in rows : s.sequence_number <= r.sequence_number
         IN  << first >> \o OrderBySeq_Desc(rows \ {first})

\* select(...).order_by(sequence_number.asc())
RECURSIVE OrderBySeq(_)
OrderBySeq(rows) ==
    IF rows = {} THEN << >>
    ELSE LET first == CHOOSE r \in rows : \A s \in rows : r.sequence_number <= s.sequence_number
         IN  << first >> \o OrderBySeq(rows \ {first})

\* select(...).order_by(sequence_number.desc()).limit(1).scalar_one_or_none()
Tip(rows) ==
    IF rows = {} THEN << >>
    ELSE << CHOOSE r \in rows : \A s \in rows : s.sequence_number <= r.sequence_number >>

\* The constraints of ledger_entries checked when a row is inserted:
\* primary key id, unique sequence_number, unique entry_hash, and the
\* foreign key supersedes -> ledger_entries.id.
\* the table without unique=True on sequence_number
SequenceUnique_Dropped(rows, e) == TRUE

SequenceUnique(rows, e) == \A r \in rows : r.sequence_number # e.sequence_number

\* the table without the foreign key on supersedes
InsertAllowed_NoForeignKey(rows, e) ==
    /\ \A r \in rows : r.id # e.id
    /\ SequenceUnique(rows, e)
    /\ \A r \in rows : r.entry_hash # e.entry_hash

InsertAllowed(rows, e) ==
    /\ \A r \in rows : r.id # e.id
    /\ SequenceUnique(rows, e)
    /\ \A r \in rows : r.entry_hash # e.entry_hash
    /\ e.supersedes # None => \E r \in rows \cup {e} : r.id = e.supersedes

\* ------------------------------------------------------------ initialize
\* Base.metadata.create_all(self.engine)
InitializeCreateAll(p) ==
    /\ pc[p] = "idle"
    /\ calls < MaxCalls
    /\ calls' = calls + 1
    /\ tableExists' = TRUE
    /\ pc' = [pc EXCEPT ![p] = "init_created"]
    /\ result' = [result EXCEPT ![p] = NoResult]
    /\ UNCHANGED << entries, args, last_entry, entry, attempts, verifyResult,
                    clock, nextId, original, hashVars, otherVars >>

\* a genesis block numbered 1
_create_genesis_block_SeqOne(genesis_id, system_member_id, genesis_timestamp) ==
    [id |-> genesis_id,
     sequence_number |-> 1,
     previous_hash |-> GENESIS_HASH,
     entry_hash |-> _compute_hash(genesis_id, 1, GENESIS_HASH, genesis_timestamp,
                                  "genesis", "system", system_member_id,
                                  GenesisContent, None, FALSE),
     timestamp |-> genesis_timestamp,
     entry_type |-> "genesis",
     author_role |-> "system",
     author_member_id |-> system_member_id,
     content |-> GenesisContent,
     supersedes |-> None,
     emergency_designation |-> FALSE]

_create_genesis_block(genesis_id, system_member_id, genesis_timestamp) ==
    [id |-> genesis_id,
     sequence_number |-> 0,
     previous_hash |-> GENESIS_HASH,
     entry_hash |-> _compute_hash(genesis_id, 0, GENESIS_HASH, genesis_timestamp,
                                  "genesis", "system", system_member_id,
                                  GenesisContent, None, FALSE),
     timestamp |-> genesis_timestamp,
     entry_type |-> "genesis",
     author_role |-> "system",
     author_member_id |-> system_member_id,
     content |-> GenesisContent,
     supersedes |-> None,
     emergency_designation |-> FALSE]

\* initialize never finding the genesis block it looks for
GenesisExists_NeverFound(rows) == FALSE

\* select(LedgerEntryDB).where(sequence_number == 0) ... is not None
GenesisExists(rows) == \E r \in rows : r.sequence_number = 0

\* existing = select(...).where(sequence_number == 0); if None the genesis
\* block is built (two uuid4() and the clock are read here)
InitializeSelect(p) ==
    /\ pc[p] = "init_created"
    /\ IF GenesisExists(entries)
       THEN /\ pc' = [pc EXCEPT ![p] = "idle"]
            /\ result' = [result EXCEPT ![p] = [status |-> "ok", entry |-> << >>]]
            /\ UNCHANGED << entry, nextId >>
       ELSE /\ pc' = [pc EXCEPT ![p] = "init_selected"]
            /\ entry' = [entry EXCEPT ![p] = << _create_genesis_block(nextId, nextId + 1, clock) >>]
            /\ nextId' = nextId + 2
            /\ UNCHANGED result
    /\ UNCHANGED << tableExists, entries, args, last_entry, attempts, verifyResult,
                    clock, calls, original, hashVars, otherVars >>

\* session.add(genesis); session.commit()
InitializeCommit(p) ==
    /\ pc[p] = "init_selected"
    /\ IF InsertAllowed(entries, entry[p][1])
       THEN /\ entries' = entries \cup {entry[p][1]}
            /\ result' = [result EXCEPT ![p] = [status |-> "ok", entry |-> << >>]]
       ELSE /\ UNCHANGED entries
            /\ result' = [result EXCEPT ![p] = [status |-> "IntegrityError", entry |-> entry[p]]]
    /\ pc' = [pc EXCEPT ![p] = "idle"]
    /\ entry' = [entry EXCEPT ![p] = << >>]
    /\ UNCHANGED << tableExists, args, last_entry, attempts, verifyResult, clock,
                    nextId, calls, original, hashVars, otherVars >>

\* ----------------------------------------------------------------- append
\* a correction that overwrites the row it supersedes
Insert_ReplacingSuperseded(rows, e) ==
    {r \in rows : r.id # e.supersedes \/ e.supersedes = None} \cup {e}

\* session.add(entry) followed by session.commit(): the table gains the row
Insert(rows, e) == rows \cup {e}

\* The arguments a caller may pass.  A correction names in supersedes the
\* latest identifier produced so far, which may or may not be the id of a
\* committed entry.
Requests ==
    { [entry_type |-> "executive_action", author_role |-> "operations_executive",
       author_member_id |-> CallerMemberId, content |-> ContentAlpha,
       supersedes |-> None, emergency_designation |-> FALSE],
      [entry_type |-> "emergency_action", author_role |-> "ledger_custodian",
       author_member_id |-> CallerMemberId, content |-> ContentTwoKeys,
       supersedes |-> nextId - 1, emergency_designation |-> TRUE] }

\* last_entry = select(...).order_by(sequence_number.desc()).limit(1); raises
\* LedgerIntegrityError when there is none (and the driver's ProgrammingError
\* when the table was never created)
AppendRead(p) ==
    /\ pc[p] = "idle"
    /\ calls < MaxCalls
    /\ calls' = calls + 1
    /\ attempts' = [attempts EXCEPT ![p] = 1]
    /\ \E a \in Requests :
         IF ~tableExists
         THEN /\ result' = [result EXCEPT ![p] = [status |-> "ProgrammingError", entry |-> << >>]]
              /\ UNCHANGED << pc, args, last_entry >>
         ELSE IF Tip(entries) = << >>
         THEN /\ result' = [result EXCEPT ![p] = [status |-> "LedgerIntegrityError", entry |-> << >>]]
              /\ UNCHANGED << pc, args, last_entry >>
         ELSE /\ result' = [result EXCEPT ![p] = NoResult]
              /\ pc' = [pc EXCEPT ![p] = "append_read"]
              /\ args' = [args EXCEPT ![p] = << a >>]
              /\ last_entry' = [last_entry EXCEPT ![p] = Tip(entries)]
    /\ UNCHANGED << tableExists, entries, entry, verifyResult, clock, nextId, original, hashVars, otherVars >>

\* append() chaining on the tip's previous_hash instead of its entry_hash
NewEntry_BadLink(last, entry_id, timestamp, a) ==
    LET new_seq == last.sequence_number + 1
        previous_hash == last.previous_hash
    IN  [id |-> entry_id,
         sequence_number |-> new_seq,
         previous_hash |-> previous_hash,
         entry_hash |-> _compute_hash(entry_id, new_seq, previous_hash, timestamp,
                                      a.entry_type, a.author_role, a.author_member_id,
                                      a.content, a.supersedes, a.emergency_designation),
         timestamp |-> timestamp,
         entry_type |-> a.entry_type,
         author_role |-> a.author_role,
         author_member_id |-> a.author_member_id,
         content |-> a.content,
         supersedes |-> a.supersedes,
         emergency_designation |-> a.emergency_designation]

\* append() hashing without the supersedes argument it stores
NewEntry_HashOmitsSupersedes(last, entry_id, timestamp, a) ==
    LET new_seq == last.sequence_number + 1
        previous_hash == last.entry_hash
    IN  [id |-> entry_id,
         sequence_number |-> new_seq,
         previous_hash |-> previous_hash,
         entry_hash |-> _compute_hash(entry_id, new_seq, previous_hash, timestamp,
                                      a.entry_type, a.author_role, a.author_member_id,
                                      a.content, None, a.emergency_designation),
         timestamp |-> timestamp,
         entry_type |-> a.entry_type,
         author_role |-> a.author_role,
         author_member_id |-> a.author_member_id,
         content |-> a.content,
         supersedes |-> a.supersedes,
         emergency_designation |-> a.emergency_designation]

\* append() dating the entry before the tip it read
NewEntry_TimestampBeforeTip(last, entry_id, timestamp, a) ==
    LET new_seq == last.sequence_number + 1
        previous_hash == last.entry_hash
    IN  [id |-> entry_id,
         sequence_number |-> new_seq,
         previous_hash |-> previous_hash,
         entry_hash |-> _compute_hash(entry_id, new_seq, previous_hash, last.timestamp - 1,
                                      a.entry_type, a.author_role, a.author_member_id,
                                      a.content, a.supersedes, a.emergency_designation),
         timestamp |-> last.timestamp - 1,
         entry_type |-> a.entry_type,
         author_role |-> a.author_role,
         author_member_id |-> a.author_member_id,
         content |-> a.content,
         supersedes |-> a.supersedes,
         emergency_designation |-> a.emergency_designation]

\* new_seq, previous_hash, entry_hash and the LedgerEntryDB(...) of append()
NewEntry(last, entry_id, timestamp, a) ==
    LET new_seq == last.sequence_number + 1
        previous_hash == last.entry_hash
    IN  [id |-> entry_id,
         sequence_number |-> new_seq,
         previous_hash |-> previous_hash,
         entry_hash |-> _compute_hash(entry_id, new_seq, previous_hash, timestamp,
                                      a.entry_type, a.author_role, a.author_member_id,
                                      a.content, a.supersedes, a.emergency_designation),
         timestamp |-> timestamp,
         entry_type |-> a.entry_type,
         author_role |-> a.author_role,
         author_member_id |-> a.author_member_id,
         content |-> a.content,
         supersedes |-> a.supersedes,
         emergency_designation |-> a.emergency_designation]

\* entry_id = uuid4(); timestamp = datetime.now(timezone.utc); the hash and
\* the row are computed from the tip read before
AppendCompute(p) ==
    /\ pc[p] = "append_read"
    /\ entry' = [entry EXCEPT ![p] = << NewEntry(last_entry[p][1], nextId, clock, args[p][1]) >>]
    /\ nextId' = nextId + 1
    /\ pc' = [pc EXCEPT ![p] = "append_computed"]
    /\ UNCHANGED << tableExists, entries, args, last_entry, result, attempts,
                    verifyResult, clock, calls, original, hashVars, otherVars >>

\* a rejected INSERT that leaves its row behind
Rollback_KeepsRow(rows, e) == rows \cup {e}

\* the exception leaves the `with self.SessionLocal() as session` block: the
\* session is closed and its transaction rolled back
Rollback(rows, e) == rows

\* session.add(entry); session.commit(); session.refresh(entry); return entry.
\* A constraint violation raises sqlalchemy's IntegrityError out of append();
\* the exception carries the parameters of the rejected INSERT.
AppendCommit(p) ==
    /\ pc[p] = "append_computed"
    /\ IF InsertAllowed(entries, entry[p][1])
       THEN /\ entries' = Insert(entries, entry[p][1])
            /\ result' = [result EXCEPT ![p] = [status |-> "ok", entry |-> entry[p]]]
       ELSE /\ entries' = Rollback(entries, entry[p][1])
            /\ result' = [result EXCEPT ![p] = [status |-> "IntegrityError", entry |-> entry[p]]]
    /\ pc' = [pc EXCEPT ![p] = "idle"]
    /\ args' = [args EXCEPT ![p] = << >>]
    /\ last_entry' = [last_entry EXCEPT ![p] = << >>]
    /\ entry' = [entry EXCEPT ![p] = << >>]
    /\ UNCHANGED << tableExists, attempts, verifyResult, clock, nextId, calls, original, hashVars, otherVars >>

\* ----------------------------------------------------------- verify_chain
\* verify_chain without the chain linkage check
RECURSIVE VerifyFrom_NoLinkCheck(_, _)
VerifyFrom_NoLinkCheck(es, i) ==
    IF i >= Len(es)
    THEN [raised |-> FALSE, valid |-> TRUE, verified |-> Len(es), message |-> "Chain verified"]
    ELSE IF es[i + 1].entry_hash # HashOf(es[i + 1])
    THEN [raised |-> FALSE, valid |-> FALSE, verified |-> i, message |-> "Hash mismatch"]
    ELSE VerifyFrom_NoLinkCheck(es, i + 1)

\* the for loop of verify_chain from index i (0-based) on
RECURSIVE VerifyFrom(_, _)
VerifyFrom(es, i) ==
    IF i >= Len(es)
    THEN [raised |-> FALSE, valid |-> TRUE, verified |-> Len(es), message |-> "Chain verified"]
    ELSE IF es[i + 1].entry_hash # HashOf(es[i + 1])
    THEN [raised |-> FALSE, valid |-> FALSE, verified |-> i, message |-> "Hash mismatch"]
    ELSE IF i > 0 /\ es[i + 1].previous_hash # es[i].entry_hash
    THEN [raised |-> FALSE, valid |-> FALSE, verified |-> i, message |-> "Chain break"]
    ELSE VerifyFrom(es, i + 1)

verify_chain(rows) ==
    LET es == OrderBySeq(rows)
    IN  IF es = << >>
        THEN [raised |-> FALSE, valid |-> FALSE, verified |-> 0, message |-> "No entries found in ledger"]
        ELSE IF es[1].sequence_number # 0
        THEN [raised |-> FALSE, valid |-> FALSE, verified |-> 0, message |-> "First entry has wrong sequence"]
        ELSE IF es[1].previous_hash # GENESIS_HASH
        THEN [raised |-> FALSE, valid |-> FALSE, verified |-> 0, message |-> "Genesis block has incorrect previous_hash"]
        ELSE VerifyFrom(es, 0)

\* one call of verify_chain(): a single SELECT, then the check of the rows read
VerifyChain ==
    /\ verifyResult' =
          IF tableExists THEN verify_chain(entries)
          ELSE [raised |-> TRUE, valid |-> FALSE, verified |-> 0, message |-> "ProgrammingError"]
    /\ UNCHANGED << tableExists, entries, pc, args, last_entry, entry, result,
                    attempts, clock, nextId, calls, original, hashVars, otherVars >>

\* ------------------------------------------------------------------ clock
Tick ==
    /\ clock < MaxClock
    /\ \E p \in Procs : pc[p] \in {"init_created", "append_read"}
    /\ clock' = clock + 1
    /\ UNCHANGED << tableExists, entries, pc, args, last_entry, entry, result,
                    attempts, verifyResult, nextId, calls, original, hashVars, otherVars >>

\* ---------------------------------------------------- direct storage edit
\* An UPDATE of one column of one row made directly in the database (not
\* through LedgerService) while no call is in progress; the table's
\* constraints still apply to it.
Fields == { "id", "sequence_number", "previous_hash", "entry_hash", "timestamp",
            "entry_type", "author_role", "author_member_id", "content",
            "supersedes", "emergency_designation" }

TamperValues(rows, e, f) ==
    CASE f = "id" -> {nextId}
      [] f = "sequence_number" -> {-1, Tip(rows)[1].sequence_number + 1}
      [] f = "previous_hash" -> {GENESIS_HASH, e.entry_hash}
      [] f = "entry_hash" -> {GENESIS_HASH}
      [] f = "timestamp" -> {e.timestamp + 1}
      [] f = "entry_type" -> {"vote_record"}
      [] f = "author_role" -> {"founder"}
      [] f = "author_member_id" -> {CallerMemberId + 1}
      [] f = "content" -> {ContentAlpha, ContentBeta}
      [] f = "supersedes" -> {None} \cup {r.id : r \in rows}
      [] f = "emergency_designation" -> {~e.emergency_designation}

UpdateAllowed(rows, e, f, v) ==
    /\ f = "id" => \A r \in rows : r.id # v /\ r.supersedes # e.id
    /\ f = "sequence_number" => \A r \in rows : r.sequence_number # v
    /\ f = "entry_hash" => \A r \in rows : r.entry_hash # v

Tamper ==
    /\ original = << >>
    /\ \A p \in Procs : pc[p] = "idle"
    /\ \E e \in entries, f \in Fields :
         \E v \in TamperValues(entries, e, f) :
            /\ v # e[f]
            /\ UpdateAllowed(entries, e, f, v)
            /\ entries' = (entries \ {e}) \cup {[e EXCEPT ![f] = v]}
    /\ original' = << entries >>
    /\ verifyResult' = NoVerify
    /\ UNCHANGED << tableExists, pc, args, last_entry, entry, result, attempts,
                    clock, nextId, calls, hashVars, otherVars >>

\* ---------------------------------------------------------- specification
Service ==
    \/ \E p \in Procs : InitializeCreateAll(p)
    \/ \E p \in Procs : InitializeSelect(p)
    \/ \E p \in Procs : InitializeCommit(p)
    \/ \E p \in Procs : AppendRead(p)
    \/ \E p \in Procs : AppendCompute(p)
    \/ \E p \in Procs : AppendCommit(p)
    \/ Tick

Next ==
    \/ Service
    \/ VerifyChain

Spec == Init /\ [][Next]_vars

\* The service together with one direct storage edit, after which the
\* chain is audited.  The chain that is edited is written by one caller: the
\* chains several callers can store are the same ones (C3, C7).
NextTamper ==
    \/ (original = << >> /\ Service /\ \A p \in Procs : p > 1 => pc'[p] = "idle")
    \/ Tamper
    \/ (original # << >> /\ VerifyChain)

SpecTamper == Init /\ [][NextTamper]_vars

\* --------------------------------------------- rewriting recorded history
\* Direct edits of the table that change what the ledger records, made while
\* no call is in progress.  ForeignKey("ledger_entries.id") on supersedes
\* forbids deleting a row that a remaining row supersedes.
RewriteFields == { "timestamp", "entry_type", "author_role", "author_member_id",
                   "content", "emergency_designation" }

DeleteAllowed(rows, gone) ==
    \A r \in rows \ gone : r.supersedes \notin {g.id : g \in gone}

\* UPDATE of one column of one row together with the entry_hash recomputed
\* over the new values
Rewrite ==
    /\ original = << >>
    /\ \A p \in Procs : pc[p] = "idle"
    /\ \E e \in entries, f \in RewriteFields :
         \E v \in TamperValues(entries, e, f) :
            LET edited == [e EXCEPT ![f] = v]
                rehashed == [edited EXCEPT !.entry_hash = HashOf(edited)]
            IN  /\ v # e[f]
                /\ UpdateAllowed(entries, e, "entry_hash", rehashed.entry_hash)
                /\ entries' = (entries \ {e}) \cup {rehashed}
    /\ original' = << entries >>
    /\ verifyResult' = NoVerify
    /\ UNCHANGED << tableExists, pc, args, last_entry, entry, result, attempts,
                    clock, nextId, calls, hashVars, otherVars >>

\* DELETE of one row that is not the most recent one
Delete ==
    /\ original = << >>
    /\ \A p \in Procs : pc[p] = "idle"
    /\ \E e \in entries :
         /\ \E r \in entries : r.sequence_number > e.sequence_number
         /\ DeleteAllowed(entries, {e})
         /\ entries' = entries \ {e}
    /\ original' = << entries >>
    /\ verifyResult' = NoVerify
    /\ UNCHANGED << tableExists, pc, args, last_entry, entry, result, attempts,
                    clock, nextId, calls, hashVars, otherVars >>

\* DELETE ... WHERE sequence_number >= n: the most recent rows are removed
Truncate ==
    /\ original = << >>
    /\ \A p \in Procs : pc[p] = "idle"
    /\ \E n \in {e.sequence_number : e \in entries} :
         LET gone == {e \in entries : e.sequence_number >= n}
         IN  /\ DeleteAllowed(entries, gone)
             /\ entries' = entries \ gone
    /\ original' = << entries >>
    /\ verifyResult' = NoVerify
    /\ UNCHANGED << tableExists, pc, args, last_entry, entry, result, attempts,
                    clock, nextId, calls, hashVars, otherVars >>

\* ------------------------------------------------------------- audit tool
\* run_audit: count = service.get_entry_count(); an empty ledger returns True
\* at once.  The store is left alone from the start of the audit on, so that
\* what the audit answers can be set against the store it looked at.
AuditCount(p) ==
    /\ pc[p] = "idle"
    /\ \A q \in Procs : pc[q] = "idle"
    /\ original' = IF original = << >> THEN << entries >> ELSE original
    /\ IF ~tableExists
       THEN /\ result' = [result EXCEPT ![p] = [status |-> "ProgrammingError", entry |-> << >>]]
            /\ UNCHANGED pc
       ELSE IF Cardinality(entries) = 0
       THEN /\ result' = [result EXCEPT ![p] = [status |-> "True", entry |-> << >>]]
            /\ UNCHANGED pc
       ELSE /\ result' = [result EXCEPT ![p] = NoResult]
            /\ pc' = [pc EXCEPT ![p] = "audit_counted"]
    /\ UNCHANGED << tableExists, entries, args, last_entry, entry, attempts,
                    verifyResult, clock, nextId, calls, hashVars, otherVars >>

\* is_valid, entries_verified, message = service.verify_chain(); return is_valid
AuditVerify(p) ==
    /\ pc[p] = "audit_counted"
    /\ verifyResult' = verify_chain(entries)
    /\ result' = [result EXCEPT ![p] =
                     [status |-> IF verifyResult'.valid THEN "True" ELSE "False",
                      entry |-> << >>]]
    /\ pc' = [pc EXCEPT ![p] = "idle"]
    /\ UNCHANGED << tableExists, entries, args, last_entry, entry, attempts,
                    clock, nextId, calls, original, hashVars, otherVars >>

\* main: sys.exit(0 if is_valid else 1)
ExitStatus(is_valid) == IF is_valid THEN 0 ELSE 1

\* The service (one caller writes the chain), at most one rewriting of the
\* history, then audits and verifications of the store as it is left.
NextAudit ==
    \/ (original = << >> /\ Service /\ \A p \in Procs : p > 1 => pc'[p] = "idle")
    \/ Rewrite
    \/ Delete
    \/ Truncate
    \/ \E p \in Procs : AuditCount(p)
    \/ \E p \in Procs : AuditVerify(p)
    \/ (original # << >> /\ (\A p \in Procs : pc[p] = "idle") /\ VerifyChain)

SpecAudit == Init /\ [][NextAudit]_vars

\* ------------------------------------------------------------ read access
MaxLimit == 3

Min(a, b) == IF a <= b THEN a ELSE b

\* get_latest_entries taking the first rows in ascending order
get_latest_entries_Ascending(rows, limit) ==
    LET es == OrderBySeq(rows)
    IN  SubSeq(es, 1, Min(limit, Len(es)))

\* select(LedgerEntryDB).order_by(sequence_number.desc()).limit(limit)
get_latest_entries(rows, limit) ==
    LET es == OrderBySeq(rows)
        desc == [i \in 1..Len(es) |-> es[Len(es) + 1 - i]]
    IN  SubSeq(desc, 1, Min(limit, Len(desc)))

\* one call of get_latest_entries(limit): a single SELECT
GetLatest(limit) ==
    /\ latest' =
          IF tableExists THEN [raised |-> FALSE, rows |-> get_latest_entries(entries, limit)]
          ELSE [raised |-> TRUE, rows |-> << >>]
    /\ UNCHANGED << ledgerVars, hashVars, tiers, permission, cycleVars, agentVars,
                    governanceVars >>

\* The service (one caller writes the chain) and reads of the latest entries.
NextRead ==
    \/ (Service /\ \A p \in Procs : p > 1 => pc'[p] = "idle")
    \/ \E limit \in 0..MaxLimit : GetLatest(limit)

SpecRead == Init /\ [][NextRead]_vars

\* ------------------------------------------------------ permission engine
\* A dollar amount is << >> (None) or <<n>>.
\* check_permission testing the autonomous list before the forbidden one
check_permission_AutonomousFirst(ts, tier_id, action_type, dollar_amount) ==
    LET Result(d) == [decision |-> d, tier_id |-> tier_id, action_type |-> action_type, dollar_amount |-> dollar_amount]
    IN  IF tier_id \notin DOMAIN ts THEN Result("forbidden")
        ELSE LET tier == ts[tier_id]
             IN  IF action_type \in tier.autonomous_actions THEN Result("authorized")
                 ELSE IF action_type \in tier.forbidden_actions THEN Result("forbidden")
                 ELSE IF action_type \in tier.requires_approval THEN Result("requires_approval")
                 ELSE IF /\ dollar_amount # << >>
                         /\ tier.irreversible_threshold > 0
                         /\ dollar_amount[1] > tier.irreversible_threshold
                 THEN Result("exceeds_irreversible_threshold")
                 ELSE Result("requires_approval")

\* check_permission authorizing what no list names
check_permission_DefaultAuthorized(ts, tier_id, action_type, dollar_amount) ==
    LET Result(d) == [decision |-> d, tier_id |-> tier_id, action_type |-> action_type, dollar_amount |-> dollar_amount]
    IN  IF tier_id \notin DOMAIN ts THEN Result("forbidden")
        ELSE LET tier == ts[tier_id]
             IN  IF action_type \in tier.forbidden_actions THEN Result("forbidden")
                 ELSE IF action_type \in tier.requires_approval THEN Result("requires_approval")
                 ELSE IF /\ dollar_amount # << >>
                         /\ tier.irreversible_threshold > 0
                         /\ dollar_amount[1] > tier.irreversible_threshold
                 THEN Result("exceeds_irreversible_threshold")
                 ELSE Result("authorized")

\* PermissionEngine.check_permission
check_permission(ts, tier_id, action_type, dollar_amount) ==
    LET Result(d) == [decision |-> d, tier_id |-> tier_id, action_type |-> action_type, dollar_amount |-> dollar_amount]
    IN  IF tier_id \notin DOMAIN ts THEN Result("forbidden")
        ELSE LET tier == ts[tier_id]
             IN  IF action_type \in tier.forbidden_actions THEN Result("forbidden")
                 ELSE IF action_type \in tier.requires_approval THEN Result("requires_approval")
                 ELSE IF /\ dollar_amount # << >>
                         /\ tier.irreversible_threshold > 0
                         /\ dollar_amount[1] > tier.irreversible_threshold
                 THEN Result("exceeds_irreversible_threshold")
                 ELSE IF action_type \in tier.autonomous_actions THEN Result("authorized")
                 ELSE Result("requires_approval")

\* PermissionCheckResult.is_allowed
is_allowed(r) == r.decision = "authorized"

\* every PermissionTier over the modelled actions; the three lists are free to
\* overlap
TierSpace ==
    [autonomous_actions : SUBSET Actions, requires_approval : SUBSET Actions,
     forbidden_actions : SUBSET Actions, irreversible_threshold : {0, 25}]

TierIds == {"tier_1", "tier_unknown"}
Amounts == { << >>, << 25 >>, << 26 >> }

\* PermissionEngine(tiers) with one tier "tier_1" of any shape
InitPermission ==
    /\ InitLedger
    /\ tuples = << >>
    /\ digests = << >>
    /\ model_digests = << >>
    /\ latest = NoLatest
    /\ tiers \in [{"tier_1"} -> TierSpace]
    /\ permission = NoPermission
    /\ InitCycle
    /\ agent = DefaultAgent
    /\ AgentIdle
    /\ InitEmergency
    /\ InitDueProcess

\* one call of check_permission(tier_id, action_type, dollar_amount)
CheckPermission(tier_id, action_type, dollar_amount) ==
    /\ permission' = check_permission(tiers, tier_id, action_type, dollar_amount)
    /\ UNCHANGED << ledgerVars, hashVars, latest, tiers, cycleVars, agentVars,
                    governanceVars >>

NextPermission ==
    \E tier_id \in TierIds, action_type \in Actions, dollar_amount \in Amounts :
        CheckPermission(tier_id, action_type, dollar_amount)

SpecPermission == InitPermission /\ [][NextPermission]_vars

\* ------------------------------------------------------ deliberative cycle
\* The manager is called from one thread: a call runs to its end before the
\* next one starts.  open_session and close_session assign the phase twice;
\* each assignment is a step.  Time is counted in hours and passes a day at
\* a time: up to MaxOpenDelay days before the first session is opened, and
\* while a session deliberates until a day after its deadline.
MaxSubmissions == 1
MaxOpenDelay == 1

\* normal_deliberation_days and emergency_deliberation_hours the manager is
\* constructed with (the defaults)
normal_days == 7
emergency_hours == 24

\* timedelta(days=d) and timedelta(hours=h) in hours
timedelta_days(d) == d * 24
timedelta_hours(h) == h

SessionIds == {1}
UnknownSessionId == 2
Members == {1, 2}
VotePositions == {"yea", "nay", "abstain"}
\* SessionType.SPECIAL takes the branches of SessionType.REGULAR everywhere
SessionTypes == {"regular", "emergency"}

PhaseOrder == << "opening", "deliberation", "vote", "record", "closed" >>
PhaseIndex(phase) == CHOOSE i \in 1..Len(PhaseOrder) : PhaseOrder[i] = phase

Append1(seq, x) == IF \E i \in 1..Len(seq) : seq[i] = x THEN seq ELSE Append(seq, x)

CycleUnchanged == UNCHANGED << ledgerVars, hashVars, latest, tiers, permission, agentVars, governanceVars >>

\* open_session up to self.active_sessions[cycle.id] = cycle
OpenSessionCreate(session_type, initiator_id) ==
    /\ cyclePc = << >>
    /\ _cycle_counter < Cardinality(SessionIds)
    /\ _cycle_counter' = _cycle_counter + 1
    /\ LET id == _cycle_counter + 1
           deadline == IF session_type = "emergency" THEN now + timedelta_hours(emergency_hours)
                       ELSE now + timedelta_days(normal_days)
           cycle == [cycle_number |-> _cycle_counter + 1,
                     session_type |-> session_type,
                     phase |-> "opening",
                     opened_at |-> now,
                     deliberation_deadline |-> deadline,
                     closed_at |-> << >>,
                     quorum_met |-> FALSE,
                     participants |-> initiator_id,
                     submissions |-> << >>,
                     votes |-> << >>,
                     outcome |-> "None"]
       IN  /\ active_sessions' = [i \in DOMAIN active_sessions \cup {id} |->
                                     IF i = id THEN cycle ELSE active_sessions[i]]
           /\ cyclePc' = << "open_session", id >>
    /\ UNCHANGED << cycleResult, now >>
    /\ CycleUnchanged

\* cycle.phase = SessionPhase.DELIBERATION; return cycle
OpenSessionDeliberate ==
    /\ cyclePc # << >>
    /\ cyclePc[1] = "open_session"
    /\ active_sessions' = [active_sessions EXCEPT ![cyclePc[2]].phase = "deliberation"]
    /\ cyclePc' = << >>
    /\ cycleResult' = "ok"
    /\ UNCHANGED << _cycle_counter, now >>
    /\ CycleUnchanged

\* submit_position accepting a submission in any phase
SubmitPosition_AnyPhase(session_id, member_id) ==
    /\ cyclePc = << >>
    /\ IF session_id \notin DOMAIN active_sessions
       THEN cycleResult' = "ValueError" /\ UNCHANGED active_sessions
       ELSE /\ Len(active_sessions[session_id].submissions) < MaxSubmissions
            /\ active_sessions' =
                  [active_sessions EXCEPT
                     ![session_id].submissions = Append(@, member_id),
                     ![session_id].participants = Append1(@, member_id)]
            /\ cycleResult' = "ok"
    /\ UNCHANGED << _cycle_counter, cyclePc, now >>
    /\ CycleUnchanged

\* submit_position(session_id, member_id, content)
SubmitPosition(session_id, member_id) ==
    /\ cyclePc = << >>
    /\ IF session_id \notin DOMAIN active_sessions
       THEN cycleResult' = "ValueError" /\ UNCHANGED active_sessions
       ELSE IF active_sessions[session_id].phase # "deliberation"
       THEN cycleResult' = "ValueError" /\ UNCHANGED active_sessions
       ELSE /\ Len(active_sessions[session_id].submissions) < MaxSubmissions
            /\ active_sessions' =
                  [active_sessions EXCEPT
                     ![session_id].submissions = Append(@, member_id),
                     ![session_id].participants = Append1(@, member_id)]
            /\ cycleResult' = "ok"
    /\ UNCHANGED << _cycle_counter, cyclePc, now >>
    /\ CycleUnchanged

\* advance_to_vote entered from any phase
AdvanceToVote_NoPhaseCheck(session_id, force) ==
    /\ cyclePc = << >>
    /\ IF session_id \notin DOMAIN active_sessions
       THEN cycleResult' = "ValueError" /\ UNCHANGED active_sessions
       ELSE IF ~force /\ now < active_sessions[session_id].deliberation_deadline
       THEN cycleResult' = "ValueError" /\ UNCHANGED active_sessions
       ELSE /\ active_sessions' = [active_sessions EXCEPT ![session_id].phase = "vote"]
            /\ cycleResult' = "ok"
    /\ UNCHANGED << _cycle_counter, cyclePc, now >>
    /\ CycleUnchanged

\* advance_to_vote without the deadline test
AdvanceToVote_NoDeadline(session_id, force) ==
    /\ cyclePc = << >>
    /\ IF session_id \notin DOMAIN active_sessions
       THEN cycleResult' = "ValueError" /\ UNCHANGED active_sessions
       ELSE IF active_sessions[session_id].phase # "deliberation"
       THEN cycleResult' = "ValueError" /\ UNCHANGED active_sessions
       ELSE /\ active_sessions' = [active_sessions EXCEPT ![session_id].phase = "vote"]
            /\ cycleResult' = "ok"
    /\ UNCHANGED << _cycle_counter, cyclePc, now >>
    /\ CycleUnchanged

\* advance_to_vote(session_id, force)
AdvanceToVote(session_id, force) ==
    /\ cyclePc = << >>
    /\ IF session_id \notin DOMAIN active_sessions
       THEN cycleResult' = "ValueError" /\ UNCHANGED active_sessions
       ELSE IF active_sessions[session_id].phase # "deliberation"
       THEN cycleResult' = "ValueError" /\ UNCHANGED active_sessions
       ELSE IF ~force /\ now < active_sessions[session_id].deliberation_deadline
       THEN cycleResult' = "ValueError" /\ UNCHANGED active_sessions
       ELSE /\ active_sessions' = [active_sessions EXCEPT ![session_id].phase = "vote"]
            /\ cycleResult' = "ok"
    /\ UNCHANGED << _cycle_counter, cyclePc, now >>
    /\ CycleUnchanged

\* cast_vote without the duplicate test
CastVote_NoDuplicateCheck(session_id, member_id, position) ==
    /\ cyclePc = << >>
    /\ IF session_id \notin DOMAIN active_sessions
       THEN cycleResult' = "ValueError" /\ UNCHANGED active_sessions
       ELSE IF active_sessions[session_id].phase # "vote"
       THEN cycleResult' = "ValueError" /\ UNCHANGED active_sessions
       ELSE /\ Len(active_sessions[session_id].votes) <= Cardinality(Members)
            /\ active_sessions' =
                  [active_sessions EXCEPT
                     ![session_id].votes = Append(@, [member_id |-> member_id, position |-> position]),
                     ![session_id].participants = Append1(@, member_id)]
            /\ cycleResult' = "ok"
    /\ UNCHANGED << _cycle_counter, cyclePc, now >>
    /\ CycleUnchanged

\* cast_vote(session_id, member_id, position, constitutional_basis)
CastVote(session_id, member_id, position) ==
    /\ cyclePc = << >>
    /\ IF session_id \notin DOMAIN active_sessions
       THEN cycleResult' = "ValueError" /\ UNCHANGED active_sessions
       ELSE IF active_sessions[session_id].phase # "vote"
       THEN cycleResult' = "ValueError" /\ UNCHANGED active_sessions
       ELSE IF \E i \in 1..Len(active_sessions[session_id].votes) :
                  active_sessions[session_id].votes[i].member_id = member_id
       THEN cycleResult' = "ValueError" /\ UNCHANGED active_sessions
       ELSE /\ active_sessions' =
                  [active_sessions EXCEPT
                     ![session_id].votes = Append(@, [member_id |-> member_id, position |-> position]),
                     ![session_id].participants = Append1(@, member_id)]
            /\ cycleResult' = "ok"
    /\ UNCHANGED << _cycle_counter, cyclePc, now >>
    /\ CycleUnchanged

\* the outcome close_session computes from the recorded votes; founder_id is
\* << >> (None) or <<member>>
CountVotes(votes, position) == Cardinality({i \in 1..Len(votes) : votes[i].position = position})

\* close_session failing every tied vote
Outcome_TieFails(votes, requires_supermajority, founder_id) ==
    LET yeas == CountVotes(votes, "yea")
        nays == CountVotes(votes, "nay")
    IN  IF yeas + nays = 0 THEN "FAILED"
        ELSE IF requires_supermajority
        THEN (IF 3 * yeas >= 2 * Len(votes) THEN "PASSED" ELSE "FAILED")
        ELSE IF yeas > nays THEN "PASSED"
        ELSE "FAILED"

Outcome(votes, requires_supermajority, founder_id) ==
    LET yeas == CountVotes(votes, "yea")
        nays == CountVotes(votes, "nay")
        founder_votes == {votes[i].position : i \in {j \in 1..Len(votes) :
                                founder_id # << >> /\ votes[j].member_id = founder_id[1]}}
    IN  IF yeas + nays = 0 THEN "FAILED"
        ELSE IF requires_supermajority
        THEN (IF 3 * yeas >= 2 * Len(votes) THEN "PASSED" ELSE "FAILED")
        ELSE IF yeas > nays THEN "PASSED"
        ELSE IF nays > yeas THEN "FAILED"
        ELSE IF "yea" \in founder_votes THEN "PASSED"
        ELSE IF "nay" \in founder_votes THEN "FAILED"
        ELSE "DEADLOCKED"

\* close_session up to cycle.phase = SessionPhase.RECORD; quorum_members is
\* << >> (None or empty) or a non-empty list
CloseSessionRecord(session_id, quorum_members, founder_id, requires_supermajority) ==
    /\ cyclePc = << >>
    /\ IF session_id \notin DOMAIN active_sessions
       THEN cycleResult' = "ValueError" /\ UNCHANGED << active_sessions, cyclePc >>
       ELSE IF active_sessions[session_id].phase # "vote"
       THEN cycleResult' = "ValueError" /\ UNCHANGED << active_sessions, cyclePc >>
       ELSE /\ active_sessions' = [active_sessions EXCEPT ![session_id].phase = "record"]
            /\ cyclePc' = << "close_session", session_id, quorum_members, founder_id,
                             requires_supermajority >>
            /\ UNCHANGED cycleResult
    /\ UNCHANGED << _cycle_counter, now >>
    /\ CycleUnchanged

\* the rest of close_session: quorum, outcome, CLOSED, closed_at
CloseSessionClose ==
    /\ cyclePc # << >>
    /\ cyclePc[1] = "close_session"
    /\ LET cycle == active_sessions[cyclePc[2]]
       IN  active_sessions' =
              [active_sessions EXCEPT
                 ![cyclePc[2]].quorum_met = IF cyclePc[3] # << >> THEN TRUE ELSE @,
                 ![cyclePc[2]].outcome = Outcome(cycle.votes, cyclePc[5], cyclePc[4]),
                 ![cyclePc[2]].phase = "closed",
                 ![cyclePc[2]].closed_at = << now >>]
    /\ cyclePc' = << >>
    /\ cycleResult' = "ok"
    /\ UNCHANGED << _cycle_counter, now >>
    /\ CycleUnchanged

\* a day passes
CycleTick ==
    /\ \/ \E id \in DOMAIN active_sessions :
             /\ active_sessions[id].phase = "deliberation"
             /\ now <= active_sessions[id].deliberation_deadline
       \/ _cycle_counter = 0 /\ now < timedelta_days(MaxOpenDelay)
    /\ now' = now + timedelta_days(1)
    /\ UNCHANGED << active_sessions, _cycle_counter, cyclePc, cycleResult >>
    /\ CycleUnchanged

NextCycle ==
    \/ \E session_type \in SessionTypes, initiator_id \in {<< >>, << 1 >>} :
          OpenSessionCreate(session_type, initiator_id)
    \/ OpenSessionDeliberate
    \/ \E id \in SessionIds \cup {UnknownSessionId}, m \in Members : SubmitPosition(id, m)
    \/ \E id \in SessionIds \cup {UnknownSessionId}, force \in BOOLEAN : AdvanceToVote(id, force)
    \/ \E id \in SessionIds \cup {UnknownSessionId}, m \in Members, position \in VotePositions :
          CastVote(id, m, position)
    \/ \E id \in SessionIds \cup {UnknownSessionId}, quorum_members \in {<< >>, << 1, 2 >>},
          founder_id \in {<< >>, << 1 >>}, requires_supermajority \in BOOLEAN :
          CloseSessionRecord(id, quorum_members, founder_id, requires_supermajority)
    \/ CloseSessionClose
    \/ CycleTick

SpecCycle == Init /\ [][NextCycle]_vars

\* ------------------------------------------------------ constitutional agent
\* One agent runs execute_action, one call at a time; each await of the call is
\* a step.  The ledger is initialized by caller 1 of the service, before,
\* between or after the agent's steps.
MaxActions == 2

AgentAmounts == { << >>, << 51 >> }

\* ActionRecord.model_dump(): objective, ..., agent_role_id
ActionRecordContent(action_type) ==
    << <<2, Str(action_type)>>, <<1, Str("operations_executive")>> >>

\* the content dicts of _log_denied_action and _escalate_action: status,
\* action_type, ...
StatusContent(status, action_type) ==
    << <<2, Str(status)>>, <<1, Str(action_type)>> >>

AgentRequest(content) ==
    [entry_type |-> "executive_action", author_role |-> "operations_executive",
     author_member_id |-> CallerMemberId, content |-> content,
     supersedes |-> None, emergency_designation |-> FALSE]

\* self.ledger_service.append(...) seen from the agent: the entry is chained
\* on the tip, or the call raises (no table, no genesis, the store fails)
AppendCanSucceed == tableExists /\ Tip(entries) # << >>

AgentAppended(content) ==
    /\ AppendCanSucceed
    /\ entries' = Insert(entries, NewEntry(Tip(entries)[1], nextId, clock, AgentRequest(content)))
    /\ nextId' = nextId + 1

AgentLedgerRest == << tableExists, pc, args, last_entry, entry, result, attempts,
                     verifyResult, clock, calls, original >>

AgentUnchanged == UNCHANGED << hashVars, latest, tiers, permission, cycleVars, agent, governanceVars >>

\* execute_action up to perm_result = self.permission_engine.check_permission(...)
AgentPermissionCheck(action_type, dollar_amount) ==
    /\ agentPc = "idle"
    /\ Len(action_history) < MaxActions
    /\ nextId <= MaxActions + 1
    /\ frame' = [action_type |-> action_type, dollar_amount |-> dollar_amount,
                 perm_result |-> check_permission(tiers, agent.permission_tier_id,
                                                  action_type, dollar_amount),
                 citations |-> << >>, invoked |-> FALSE]
    /\ agentPc' = "permission_checked"
    /\ agentResult' = NoAgentResult
    /\ UNCHANGED << ledgerVars, action_history >>
    /\ AgentUnchanged

\* the FORBIDDEN branch: _log_denied_action, then raise
AgentDenied ==
    /\ agentPc = "permission_checked"
    /\ frame.perm_result.decision = "forbidden"
    /\ \/ /\ agent.ledger_service
          /\ AgentAppended(StatusContent("DENIED", frame.action_type))
       \/ UNCHANGED << entries, nextId >>
    /\ agentPc' = "idle"
    /\ agentResult' = [status |-> "ConstitutionalActionError", ledger_entry_id |-> None]
    /\ UNCHANGED << AgentLedgerRest, frame, action_history >>
    /\ AgentUnchanged

\* the REQUIRES_APPROVAL / EXCEEDS_IRREVERSIBLE_THRESHOLD branch:
\* _escalate_action, then return status "escalated"
AgentEscalate ==
    /\ agentPc = "permission_checked"
    /\ frame.perm_result.decision \in {"requires_approval", "exceeds_irreversible_threshold"}
    /\ \/ /\ agent.ledger_service
          /\ AgentAppended(StatusContent("ESCALATED", frame.action_type))
       \/ UNCHANGED << entries, nextId >>
    /\ agentPc' = "idle"
    /\ agentResult' = [status |-> "escalated", ledger_entry_id |-> None]
    /\ UNCHANGED << AgentLedgerRest, frame, action_history >>
    /\ AgentUnchanged

\* what _generate_citations can return: the role-based fallback without a
\* citation service, else the service's list, which may be empty
CitationLists == IF agent.citation_service THEN { << >>, << "citation" >> }
                 ELSE { << "citation" >> }

\* execute_action going on to _execute without a citation
AgentCite_AcceptsEmpty ==
    /\ agentPc = "permission_checked"
    /\ frame.perm_result.decision \notin {"forbidden", "requires_approval",
                                          "exceeds_irreversible_threshold"}
    /\ \E citations \in CitationLists :
          /\ frame' = [frame EXCEPT !.citations = citations]
          /\ agentPc' = "cited"
          /\ UNCHANGED agentResult
    /\ UNCHANGED << ledgerVars, action_history >>
    /\ AgentUnchanged

\* citations = await self._generate_citations(...); if not citations: raise
AgentCite ==
    /\ agentPc = "permission_checked"
    /\ frame.perm_result.decision \notin {"forbidden", "requires_approval",
                                          "exceeds_irreversible_threshold"}
    /\ \E citations \in CitationLists :
          /\ frame' = [frame EXCEPT !.citations = citations]
          /\ IF citations = << >>
             THEN /\ agentPc' = "idle"
                  /\ agentResult' = [status |-> "ConstitutionalActionError",
                                     ledger_entry_id |-> None]
             ELSE /\ agentPc' = "cited"
                  /\ UNCHANGED agentResult
    /\ UNCHANGED << ledgerVars, action_history >>
    /\ AgentUnchanged

\* outputs = await self._execute(action_type, inputs): the action's effect
\* happens; the subclass returns its outputs or raises
AgentExecute ==
    /\ agentPc = "cited"
    /\ frame' = [frame EXCEPT !.invoked = TRUE]
    /\ \/ /\ agentPc' = "executed"
          /\ UNCHANGED agentResult
       \/ /\ agentPc' = "idle"
          /\ agentResult' = [status |-> "Exception", ledger_entry_id |-> None]
    /\ UNCHANGED << ledgerVars, action_history >>
    /\ AgentUnchanged

\* ledger_entry_id = await self._log_action(...): None without a ledger
\* service or when append raises; then the result with status "executed"
AgentLog ==
    /\ agentPc = "executed"
    /\ \/ /\ agent.ledger_service
          /\ AgentAppended(ActionRecordContent(frame.action_type))
          /\ agentResult' = [status |-> "executed", ledger_entry_id |-> nextId]
       \/ /\ UNCHANGED << entries, nextId >>
          /\ agentResult' = [status |-> "executed", ledger_entry_id |-> None]
    /\ agentPc' = "idle"
    /\ action_history' = Append(action_history, agentResult')
    /\ UNCHANGED << AgentLedgerRest, frame >>
    /\ AgentUnchanged

\* an agent of either modelled tier, with or without its services
InitAgent ==
    /\ InitLedger
    /\ tuples = << >>
    /\ digests = << >>
    /\ model_digests = << >>
    /\ latest = NoLatest
    /\ tiers = FOUNDING_PERMISSION_TIERS
    /\ permission = NoPermission
    /\ InitCycle
    /\ agent \in [permission_tier_id : {"tier_1", "tier_founder"},
                   citation_service : BOOLEAN, ledger_service : BOOLEAN]
    /\ AgentIdle
    /\ InitEmergency
    /\ InitDueProcess

NextAgent ==
    \/ InitializeCreateAll(1)
    \/ InitializeSelect(1)
    \/ InitializeCommit(1)
    \/ \E action_type \in Actions, dollar_amount \in AgentAmounts :
          AgentPermissionCheck(action_type, dollar_amount)
    \/ AgentDenied
    \/ AgentEscalate
    \/ AgentCite
    \/ AgentExecute
    \/ AgentLog

SpecAgent == InitAgent /\ [][NextAgent]_vars

\* ------------------------------------------------------ emergency powers
\* The emergency manager is called from one thread.  Time is the manager's
\* datetime.utcnow(), in hours.
MaxEmergencies == 2

DEFAULT_EMERGENCY_DURATION_HOURS == 48

EmergencyUnchanged == UNCHANGED << ledgerVars, hashVars, latest, tiers, permission,
                                   agentVars, noticeVars, active_sessions, _cycle_counter,
                                   cyclePc, cycleResult >>

\* EmergencyActivation.is_active at time t
is_active(e, t) == t < e.expires_at

IdsOf(seq) == [i \in 1..Len(seq) |-> seq[i].id]

\* the EmergencyActivation built by _activate at time t; uuid4() is the next
\* unused number
_activate(trigger_type, t) ==
    [id |-> Len(history) + 1,
     trigger_type |-> trigger_type,
     activated_at |-> t,
     expires_at |-> t + timedelta_hours(DEFAULT_EMERGENCY_DURATION_HOURS),
     judicial_review_due |-> t + timedelta_hours(DEFAULT_EMERGENCY_DURATION_HOURS)
                               + timedelta_days(7),
     review_completed |-> FALSE]

\* self.active_emergencies[activation.id] = activation; self.history.append(activation)
Activated(trigger_type) ==
    /\ Len(history) < MaxEmergencies
    /\ active_emergencies' = active_emergencies \cup {_activate(trigger_type, now).id}
    /\ history' = Append(history, _activate(trigger_type, now))

\* check_integrity_threat(chain_valid, details)
CheckIntegrityThreat(chain_valid) ==
    /\ IF ~chain_valid
       THEN /\ Activated("integrity_threat")
            /\ emergencyResult' = [op |-> "check_integrity_threat", value |-> << Len(history) + 1 >>]
       ELSE /\ emergencyResult' = [op |-> "check_integrity_threat", value |-> << >>]
            /\ UNCHANGED << active_emergencies, history >>
    /\ UNCHANGED << custodianPc, _last_verification, now >>
    /\ EmergencyUnchanged

\* check_constitutional_breach(violation_description)
CheckConstitutionalBreach ==
    /\ Activated("constitutional_breach")
    /\ emergencyResult' = [op |-> "check_constitutional_breach", value |-> << Len(history) + 1 >>]
    /\ UNCHANGED << custodianPc, _last_verification, now >>
    /\ EmergencyUnchanged

\* deactivate(emergency_id): self.active_emergencies.pop(emergency_id, None)
Deactivate(emergency_id) ==
    /\ active_emergencies' = active_emergencies \ {emergency_id}
    /\ emergencyResult' = [op |-> "deactivate",
                           value |-> IF emergency_id \in active_emergencies
                                     THEN << emergency_id >> ELSE << >>]
    /\ UNCHANGED << history, custodianPc, _last_verification, now >>
    /\ EmergencyUnchanged

\* get_active_emergencies keeping the expired emergencies too
Unexpired_KeepsAll(active, hist, t) ==
    SelectSeq(hist, LAMBDA e : e.id \in active)

\* the emergencies get_active_emergencies keeps: those it holds, in the order
\* they were activated, that have not expired at time t
Unexpired(active, hist, t) ==
    SelectSeq(hist, LAMBDA e : e.id \in active /\ ~(t >= e.expires_at))

IdSet(seq) == {seq[i].id : i \in 1..Len(seq)}

\* get_active_emergencies(): the unexpired ones are returned, the others are
\* deactivated
GetActiveEmergencies ==
    /\ active_emergencies' = IdSet(Unexpired(active_emergencies, history, now))
    /\ emergencyResult' = [op |-> "get_active_emergencies",
                           value |-> IdsOf(Unexpired(active_emergencies, history, now))]
    /\ UNCHANGED << history, custodianPc, _last_verification, now >>
    /\ EmergencyUnchanged

\* is_emergency_active(): len(self.get_active_emergencies()) > 0
IsEmergencyActive ==
    /\ active_emergencies' = IdSet(Unexpired(active_emergencies, history, now))
    /\ emergencyResult' = [op |-> "is_emergency_active",
                           value |-> Len(Unexpired(active_emergencies, history, now)) > 0]
    /\ UNCHANGED << history, custodianPc, _last_verification, now >>
    /\ EmergencyUnchanged

\* get_pending_reviews(): [e for e in history if not e.review_completed and
\* not e.is_active]
get_pending_reviews(hist, t) ==
    SelectSeq(hist, LAMBDA e : ~e.review_completed /\ ~is_active(e, t))

GetPendingReviews ==
    /\ emergencyResult' = [op |-> "get_pending_reviews",
                           value |-> IdsOf(get_pending_reviews(history, now))]
    /\ UNCHANGED << active_emergencies, history, custodianPc, _last_verification, now >>
    /\ EmergencyUnchanged

\* a day passes, before the first activation or until a day after the last
\* expiry
EmergencyTick ==
    /\ \/ \E i \in 1..Len(history) : now <= history[i].expires_at
       \/ history = << >> /\ now < timedelta_days(MaxOpenDelay)
    /\ now' = now + timedelta_days(1)
    /\ UNCHANGED << active_emergencies, history, emergencyResult, custodianPc,
                    _last_verification >>
    /\ EmergencyUnchanged

NextEmergency ==
    \/ \E chain_valid \in BOOLEAN : CheckIntegrityThreat(chain_valid)
    \/ CheckConstitutionalBreach
    \/ \E emergency_id \in 1..(MaxEmergencies + 1) : Deactivate(emergency_id)
    \/ GetActiveEmergencies
    \/ IsEmergencyActive
    \/ GetPendingReviews
    \/ EmergencyTick

SpecEmergency == Init /\ [][NextEmergency]_vars

\* ------------------------------------------- integrity failures and emergency
\* The orchestrator's main loop and the Ledger Custodian's verify action, on a
\* ledger written by one caller and then edited once in storage.
IntegrityUnchanged == UNCHANGED << tableExists, entries, pc, args, last_entry, entry, result,
                                   attempts, clock, nextId, calls, original, hashVars,
                                   latest, tiers, permission, cycleVars, agentVars, noticeVars >>

\* one turn of the main loop: verify_chain(), and check_integrity_threat when
\* it reports an invalid chain
OrchestratorHealthCheck ==
    /\ tableExists
    /\ verifyResult' = verify_chain(entries)
    /\ IF ~verify_chain(entries).valid
       THEN Activated("integrity_threat")
       ELSE UNCHANGED << active_emergencies, history >>
    /\ UNCHANGED << emergencyResult, custodianPc, _last_verification >>
    /\ IntegrityUnchanged

\* _handle_verify up to self.ledger_service.verify_chain()
CustodianVerifyChain ==
    /\ tableExists
    /\ custodianPc = << >>
    /\ verifyResult' = verify_chain(entries)
    /\ custodianPc' = << verify_chain(entries) >>
    /\ UNCHANGED << active_emergencies, history, emergencyResult, _last_verification >>
    /\ IntegrityUnchanged

\* the rest of _handle_verify: get_entry_count() and the result kept in
\* _last_verification
CustodianRecord ==
    /\ custodianPc # << >>
    /\ _last_verification' =
          << [status |-> IF custodianPc[1].valid THEN "verified" ELSE "INTEGRITY_FAILURE",
              chain_valid |-> custodianPc[1].valid,
              entries_verified |-> custodianPc[1].verified,
              message |-> custodianPc[1].message,
              entry_count |-> Cardinality(entries)] >>
    /\ custodianPc' = << >>
    /\ UNCHANGED << active_emergencies, history, emergencyResult, verifyResult >>
    /\ IntegrityUnchanged

NextIntegrity ==
    \/ (original = << >> /\ Service /\ \A p \in Procs : p > 1 => pc'[p] = "idle")
    \/ Tamper
    \/ OrchestratorHealthCheck
    \/ CustodianVerifyChain
    \/ CustodianRecord

SpecIntegrity == Init /\ [][NextIntegrity]_vars

\* ------------------------------------------------------------ due process
\* The due process manager is called from one thread.  Notice ids are the
\* numbers 1, 2, ... in order of issue, so active_notices is a sequence.
MaxNotices == 1

response_period_hours == 48

DueProcessUnchanged == UNCHANGED << ledgerVars, hashVars, latest, tiers, permission,
                                    agentVars, emergencyVars, active_sessions,
                                    _cycle_counter, cyclePc, cycleResult >>

\* issue_notice(..., is_emergency)
IssueNotice(is_emergency) ==
    /\ Len(notice_history) < MaxNotices
    /\ active_notices' =
          Append(active_notices,
                 [id |-> Len(notice_history) + 1,
                  issued_at |-> now,
                  response_deadline |-> now + timedelta_hours(response_period_hours),
                  is_emergency |-> is_emergency,
                  member_response |-> "None",
                  member_response_at |-> None,
                  status |-> "pending"])
    /\ notice_history' = Append(notice_history, Len(notice_history) + 1)
    /\ noticeResult' = [op |-> "issue_notice", notice_id |-> Len(notice_history) + 1,
                        raised |-> "None"]
    /\ UNCHANGED now
    /\ DueProcessUnchanged

\* submit_response(notice_id, response)
SubmitResponse(notice_id) ==
    /\ IF notice_id \notin DOMAIN active_notices
       THEN /\ noticeResult' = [op |-> "submit_response", notice_id |-> notice_id,
                                raised |-> "ValueError"]
            /\ UNCHANGED active_notices
       ELSE IF active_notices[notice_id].status = "enforced"
       THEN /\ noticeResult' = [op |-> "submit_response", notice_id |-> notice_id,
                                raised |-> "ValueError"]
            /\ UNCHANGED active_notices
       ELSE /\ active_notices' =
                  [active_notices EXCEPT ![notice_id].member_response = "response",
                                         ![notice_id].member_response_at = now,
                                         ![notice_id].status = "responded"]
            /\ noticeResult' = [op |-> "submit_response", notice_id |-> notice_id,
                                raised |-> "None"]
    /\ UNCHANGED << notice_history, now >>
    /\ DueProcessUnchanged

\* can_enforce answering True for every notice it finds
can_enforce_NoWait(notices, notice_id, t) ==
    notice_id \in DOMAIN notices

\* can_enforce(notice_id) at time t
can_enforce(notices, notice_id, t) ==
    IF notice_id \notin DOMAIN notices THEN FALSE
    ELSE IF notices[notice_id].is_emergency THEN TRUE
    ELSE IF notices[notice_id].status = "responded" THEN TRUE
    ELSE IF t >= notices[notice_id].response_deadline THEN TRUE
    ELSE FALSE

\* enforce(notice_id)
Enforce(notice_id) ==
    /\ IF notice_id \notin DOMAIN active_notices
       THEN /\ noticeResult' = [op |-> "enforce", notice_id |-> notice_id,
                                raised |-> "ValueError"]
            /\ UNCHANGED active_notices
       ELSE IF ~can_enforce(active_notices, notice_id, now)
       THEN /\ noticeResult' = [op |-> "enforce", notice_id |-> notice_id,
                                raised |-> "ValueError"]
            /\ UNCHANGED active_notices
       ELSE /\ active_notices' = [active_notices EXCEPT ![notice_id].status = "enforced"]
            /\ noticeResult' = [op |-> "enforce", notice_id |-> notice_id,
                                raised |-> "None"]
    /\ UNCHANGED << notice_history, now >>
    /\ DueProcessUnchanged

\* withdraw(notice_id)
Withdraw(notice_id) ==
    /\ IF notice_id \notin DOMAIN active_notices
       THEN /\ noticeResult' = [op |-> "withdraw", notice_id |-> notice_id,
                                raised |-> "ValueError"]
            /\ UNCHANGED active_notices
       ELSE /\ active_notices' = [active_notices EXCEPT ![notice_id].status = "withdrawn"]
            /\ noticeResult' = [op |-> "withdraw", notice_id |-> notice_id,
                                raised |-> "None"]
    /\ UNCHANGED << notice_history, now >>
    /\ DueProcessUnchanged

\* a day passes, before the first notice or until a day after the last
\* response deadline
DueProcessTick ==
    /\ \/ \E id \in DOMAIN active_notices : now <= active_notices[id].response_deadline
       \/ notice_history = << >> /\ now < timedelta_days(MaxOpenDelay)
    /\ now' = now + timedelta_days(1)
    /\ UNCHANGED noticeVars
    /\ DueProcessUnchanged

NextDueProcess ==
    \/ \E is_emergency \in BOOLEAN : IssueNotice(is_emergency)
    \/ \E notice_id \in 1..(MaxNotices + 1) : SubmitResponse(notice_id)
    \/ \E notice_id \in 1..(MaxNotices + 1) : Enforce(notice_id)
    \/ \E notice_id \in 1..(MaxNotices + 1) : Withdraw(notice_id)
    \/ DueProcessTick

SpecDueProcess == Init /\ [][NextDueProcess]_vars

\* ------------------------------------------------------ Hash Engine alone
\* Entry field tuples handed to _compute_hash: one entry, the same entry with
\* one field changed (each of the ten in turn), and contents that hold the
\* same keys and values in another order, nested, or as an object json does
\* not know.
BaseTuple ==
    [id |-> 1, sequence_number |-> 1, previous_hash |-> GENESIS_HASH, timestamp |-> 0,
     entry_type |-> "executive_action", author_role |-> "operations",
     author_member_id |-> CallerMemberId, content |-> ContentAlpha,
     supersedes |-> None, emergency_designation |-> FALSE]

ContentTwoKeysSorted == << <<1, Str("alpha")>>, <<2, Num(1)>> >>
ContentNested == << <<1, Dict(ContentTwoKeys)>> >>
ContentNestedSorted == << <<1, Dict(ContentTwoKeysSorted)>> >>
ContentObject == << <<1, Obj("alpha")>> >>

HashInputs ==
    { BaseTuple,
      [BaseTuple EXCEPT !.id = 2],
      [BaseTuple EXCEPT !.sequence_number = 2],
      [BaseTuple EXCEPT !.previous_hash = sha256(GENESIS_HASH)],
      [BaseTuple EXCEPT !.timestamp = 1],
      [BaseTuple EXCEPT !.entry_type = "vote_record"],
      [BaseTuple EXCEPT !.author_role = "founder"],
      [BaseTuple EXCEPT !.author_member_id = CallerMemberId + 1],
      [BaseTuple EXCEPT !.supersedes = 1],
      [BaseTuple EXCEPT !.emergency_designation = TRUE] }
    \cup { [BaseTuple EXCEPT !.content = c] :
             c \in { ContentBeta, ContentTwoKeys, ContentTwoKeysSorted, ContentNested,
                     ContentNestedSorted, ContentObject } }

InitHash ==
    /\ InitLedger
    /\ InitOther
    /\ tuples \in [1..NumTuples -> HashInputs]
    /\ digests = [i \in 1..NumTuples |-> << >>]
    /\ model_digests = [i \in 1..NumTuples |-> << >>]

\* one call of _compute_hash on the i-th tuple
Compute(i) ==
    /\ digests' = [digests EXCEPT ![i] =
                      << _compute_hash(tuples[i].id, tuples[i].sequence_number,
                                       tuples[i].previous_hash, tuples[i].timestamp,
                                       tuples[i].entry_type, tuples[i].author_role,
                                       tuples[i].author_member_id, tuples[i].content,
                                       tuples[i].supersedes,
                                       tuples[i].emergency_designation) >>]
    /\ UNCHANGED << tableExists, entries, pc, args, last_entry, entry, result, attempts,
                    verifyResult, clock, nextId, calls, original, tuples, model_digests,
                    otherVars >>

NextHash == \E i \in 1..NumTuples : Compute(i)

SpecHash == InitHash /\ [][NextHash]_vars

\* ------------------------------------------------ the model's own hash method
\* LedgerEntryType: member name |-> value
LedgerEntryType ==
    [EXECUTIVE_ACTION |-> "executive_action", VOTE_RECORD |-> "vote_record",
     EMERGENCY_ACTION |-> "emergency_action", GENESIS |-> "genesis"]

\* LedgerEntry(**fields): pydantic turns the entry_type string into the enum
\* member that has this value; the other fields are kept
LedgerEntry(t) ==
    [t EXCEPT !.entry_type = CHOOSE m \in DOMAIN LedgerEntryType : LedgerEntryType[m] = t.entry_type]

\* LedgerEntry.compute_hash hashing str(self.entry_type), the member's name
compute_hash_MemberName(self) ==
    LET canonical ==
            << self.author_member_id,
               self.author_role,
               json_dumps(Dict(self.content)),
               self.emergency_designation,
               self.entry_type,
               self.id,
               self.previous_hash,
               self.sequence_number,
               IF self.supersedes # None THEN self.supersedes ELSE None,
               self.timestamp >>
    IN  sha256(<< self.previous_hash, canonical >>)

\* LedgerEntry.compute_hash
compute_hash(self) ==
    LET canonical ==
            \* keys of `hashable` in sorted order
            << self.author_member_id,
               self.author_role,
               json_dumps(Dict(self.content)),
               self.emergency_designation,
               LedgerEntryType[self.entry_type],
               self.id,
               self.previous_hash,
               self.sequence_number,
               IF self.supersedes # None THEN self.supersedes ELSE None,
               self.timestamp >>
    IN  sha256(<< self.previous_hash, canonical >>)

\* one call of LedgerEntry(...).compute_hash() on the i-th tuple
ModelCompute(i) ==
    /\ model_digests' = [model_digests EXCEPT ![i] = << compute_hash(LedgerEntry(tuples[i])) >>]
    /\ UNCHANGED << ledgerVars, tuples, digests, otherVars >>

NextHashes ==
    \/ \E i \in 1..NumTuples : Compute(i)
    \/ \E i \in 1..NumTuples : ModelCompute(i)

SpecHashes == InitHash /\ [][NextHashes]_vars

\* ================================================================ claims
SeqNumbers == {e.sequence_number : e \in entries}

\* --- C1: chain linkage.  In ascending sequence_number order every stored
\* entry after the first has previous_hash equal to the entry_hash of the
\* entry before it.
C1_ChainLinkage ==
    LET es == OrderBySeq(entries)
    IN  \A i \in 2..Len(es) : es[i].previous_hash = es[i - 1].entry_hash

C1_Witness == Cardinality(entries) >= 3

\* --- C2: hash validity.  Every stored entry's entry_hash is the Hash Engine
\* result recomputed from that entry's own stored fields.
C2_HashValidity ==
    \A e \in entries :
       e.entry_hash = _compute_hash(e.id, e.sequence_number, e.previous_hash,
                                    e.timestamp, e.entry_type, e.author_role,
                                    e.author_member_id, e.content, e.supersedes,
                                    e.emergency_designation)

C2_Witness ==
    \E e \in entries : e.sequence_number > 0 /\ e.supersedes # None /\ e.emergency_designation

\* --- C3: sequence numbers are unique and contiguous from 0 (with n stored
\* entries they are exactly 0..n-1), and every successful append returns an
\* entry numbered one above the tip that existed when it committed.
C3_Contiguous ==
    /\ [](SeqNumbers = 0..(Cardinality(entries) - 1))
    /\ [][\A p \in Procs :
            (AppendCommit(p) /\ result'[p].status = "ok")
               => /\ entries # {}
                  /\ result'[p].entry[1].sequence_number = Tip(entries)[1].sequence_number + 1
                  /\ result'[p].entry[1] \in entries']_vars

C3_Witness ==
    /\ Cardinality(entries) = 3
    /\ \E p \in Procs : /\ result[p].status = "ok"
                        /\ result[p].entry # << >>
                        /\ result[p].entry[1].sequence_number = 2

\* --- C4: tamper detection.  After a direct edit of one field of one entry
\* of an untouched chain, verify_chain returns valid = false.  verifiedCount is
\* the lowest index at which the edited table, read in ascending
\* sequence_number order, differs from the untouched chain.
RowsBefore == OrderBySeq(original[1])
RowsAfter == OrderBySeq(entries)

FirstDifference ==
    CHOOSE i \in 0..(Len(RowsBefore) - 1) :
       /\ RowsAfter[i + 1] # RowsBefore[i + 1]
       /\ \A j \in 0..(i - 1) : RowsAfter[j + 1] = RowsBefore[j + 1]

\* index, in the untouched chain, of the one entry that was edited
TamperedIndex ==
    CHOOSE i \in 0..(Len(RowsBefore) - 1) : RowsBefore[i + 1] \notin entries

Audited == original # << >> /\ verifyResult # NoVerify

C4_TamperDetection ==
    Audited => /\ ~verifyResult.raised
               /\ ~verifyResult.valid
               /\ verifyResult.verified = FirstDifference

\* a sequence_number was edited so that the entry moved to the front
C4_Witness ==
    /\ Audited
    /\ \E r \in entries : r.sequence_number = -1
    /\ TamperedIndex > 0
    /\ verifyResult.verified = 0

\* C4 as stated: verifiedCount is the index of the tampered entry
C4_Original ==
    Audited => /\ ~verifyResult.valid
               /\ verifyResult.verified = TamperedIndex

\* --- C5: verification soundness.  On a chain written only by initialize and
\* append, verify_chain returns valid = true and verifiedCount = the number of
\* entries.
C5_VerificationSoundness ==
    [][(VerifyChain /\ entries # {})
          => verifyResult' = [raised |-> FALSE, valid |-> TRUE,
                              verified |-> Cardinality(entries),
                              message |-> "Chain verified"]]_vars

C5_Witness ==
    /\ verifyResult.valid
    /\ verifyResult.verified = 3
    /\ Cardinality(entries) = 3

\* --- C6: immutability.  A stored entry is in the table, with every field
\* unchanged, in all later states; an append with supersedes set adds a row
\* and leaves the superseded row as it was.
C6_Immutability == [][\A e \in entries : e \in entries']_vars

C6_Witness ==
    \E e \in entries : \E o \in entries :
        e.supersedes = o.id /\ o.sequence_number < e.sequence_number

\* --- C7: no duplicate and no fork.  No two stored entries, and no two
\* successfully returned entries, share a sequence_number, and no two
\* different stored entries have the same previous_hash.
C7_NoDuplicateNoFork ==
    /\ \A e1 \in entries : \A e2 \in entries :
          e1 # e2 => /\ e1.sequence_number # e2.sequence_number
                     /\ e1.previous_hash # e2.previous_hash
    /\ \A p \in Procs : \A q \in Procs :
          (p # q /\ result[p].status = "ok" /\ result[q].status = "ok"
                 /\ result[p].entry # << >> /\ result[q].entry # << >>)
             => result[p].entry[1].sequence_number # result[q].entry[1].sequence_number

\* one of two appends that computed against the same tip has committed and
\* the other is about to commit
C7_Witness ==
    \E p \in Procs : \E q \in Procs :
        /\ p # q
        /\ result[q].status = "ok" /\ result[q].entry # << >>
        /\ pc[p] = "append_computed"
        /\ entry[p][1].sequence_number = result[q].entry[1].sequence_number
        /\ result[q].entry[1] \in entries

\* --- C8: the read-tip, compute, write sequence of append is serialized: no
\* two append calls in progress have read the same tip entry.
C8_Serialized ==
    \A p \in Procs : \A q \in Procs :
        (p # q /\ last_entry[p] # << >> /\ last_entry[q] # << >>)
           => last_entry[p] # last_entry[q]

\* --- C9: monotonic sequence under concurrency, for M = K = NumCallers and a
\* chain holding only the genesis entry: when every caller has made one
\* append (with no supersedes) and all have finished, the chain holds exactly
\* NumCallers new entries numbered 1..NumCallers.
IsAppendOutcome(r) ==
    /\ r.status \in {"ok", "IntegrityError"}
    /\ r.entry # << >>
    /\ r.entry[1].sequence_number > 0
    /\ r.entry[1].supersedes = None

C9_MonotonicSequence ==
    (/\ calls = NumCallers + 1
     /\ \A p \in Procs : pc[p] = "idle" /\ IsAppendOutcome(result[p]))
       => /\ Cardinality(entries) = NumCallers + 1
          /\ SeqNumbers = 0..NumCallers

\* --- C10: a sequence conflict is recovered by bounded retry: an append whose
\* INSERT was rejected because its sequence number was taken ends in an error
\* only after it has re-read the tip and retried at least once.
C10_BoundedRetry ==
    \A p \in Procs :
        (result[p].status = "IntegrityError" /\ IsAppendOutcome(result[p]))
           => attempts[p] > 1

\* --- C11: genesis invariant.  Whenever the ledger holds an entry, its first
\* entry has sequence_number 0 and previous_hash "0" * 64; no entry numbered
\* above 0 is stored without the genesis entry.
C11_GenesisInvariant ==
    /\ entries # {} =>
          LET first == OrderBySeq(entries)[1]
          IN  first.sequence_number = 0 /\ first.previous_hash = GENESIS_HASH
    /\ (\E e \in entries : e.sequence_number > 0) =>
          (\E g \in entries : g.sequence_number = 0 /\ g.previous_hash = GENESIS_HASH)

C11_Witness ==
    /\ \E e \in entries : e.sequence_number = 1
    /\ \E g \in entries : g.sequence_number = 0 /\ g.entry_type = "genesis"

\* --- C12: initialize is idempotent.  On an empty store it creates exactly
\* the genesis entry; run when the genesis entry is there it returns without
\* error, adds nothing and changes no entry; after any initialize that
\* returned, exactly one entry has sequence_number 0.
InitializeReturned == [status |-> "ok", entry |-> << >>]

C12_InitializeIdempotent ==
    /\ [](\A p \in Procs :
            result[p] = InitializeReturned
               => Cardinality({e \in entries : e.sequence_number = 0}) = 1)
    /\ [][\A p \in Procs :
            /\ (InitializeCreateAll(p) \/ InitializeSelect(p) \/ InitializeCommit(p))
                  => /\ entries # {} => entries' = entries
                     /\ entries = {} =>
                           \/ entries' = {}
                           \/ /\ entries' = {entry[p][1]}
                              /\ entry[p][1].sequence_number = 0
                              /\ entry[p][1].entry_type = "genesis"
            /\ (InitializeSelect(p) /\ \E r \in entries : r.sequence_number = 0)
                  => /\ result'[p] = InitializeReturned
                     /\ pc'[p] = "idle"]_vars

\* an initialize that ran after entries had been appended
C12_Witness ==
    \E p \in Procs :
        /\ result[p] = InitializeReturned
        /\ \A q \in Procs : pc[q] = "idle" /\ (q # p => result[q] = NoResult)
        /\ Cardinality(entries) = 2

\* --- C13: append before initialize.  An append on a store that holds no
\* entries fails at once with LedgerIntegrityError and leaves the store empty.
C13_AppendBeforeInitialize ==
    [][\A p \in Procs :
          (AppendRead(p) /\ entries = {})
             => /\ result'[p].status = "LedgerIntegrityError"
                /\ pc'[p] = "idle"
                /\ entries' = {}]_vars

\* --- C15: verify_chain fails fast.  Called on a ledger that is empty, or
\* whose lowest entry is not numbered 0, or whose genesis entry does not carry
\* the sentinel, it returns valid = false with verifiedCount = 0.
C15_FailFast ==
    [][(/\ VerifyChain
        /\ \/ entries = {}
           \/ OrderBySeq(entries)[1].sequence_number # 0
           \/ OrderBySeq(entries)[1].previous_hash # GENESIS_HASH)
          => /\ ~verifyResult'.raised
             /\ ~verifyResult'.valid
             /\ verifyResult'.verified = 0]_vars

\* --- C16: verify_chain is read-only and safe next to append.  A call leaves
\* the table and every caller untouched, and on a chain written by the service
\* it returns valid = true with verifiedCount = the length the chain has at
\* its SELECT, also while appends are in progress.
C16_VerifyConcurrent ==
    [][VerifyChain
          => /\ entries' = entries
             /\ tableExists' = tableExists
             /\ pc' = pc /\ entry' = entry /\ last_entry' = last_entry
             /\ (entries # {}
                   => /\ ~verifyResult'.raised
                      /\ verifyResult'.valid
                      /\ verifyResult'.verified = Cardinality(entries))]_vars

\* a verification that ran while an append was between its read and its commit
C16_Witness ==
    /\ verifyResult.valid
    /\ verifyResult.verified = 2
    /\ Cardinality(entries) = 2
    /\ \E p \in Procs : pc[p] = "append_computed"

\* --- C17: append is atomic on failure.  When the INSERT is rejected the
\* error reaches the caller, the table is exactly as it was before the commit
\* and the rejected row is never stored.
C17_AtomicOnFailure ==
    /\ [](\A p \in Procs :
            (result[p].status = "IntegrityError" /\ result[p].entry[1].sequence_number > 0)
               => result[p].entry[1] \notin entries)
    /\ [][\A p \in Procs :
            (AppendCommit(p) /\ ~InsertAllowed(entries, entry[p][1]))
               => /\ entries' = entries
                  /\ result'[p].status = "IntegrityError"
                  /\ pc'[p] = "idle"]_vars

C17_Witness ==
    \E p \in Procs :
        /\ result[p].status = "IntegrityError"
        /\ result[p].entry[1].sequence_number > 0
        /\ result[p].entry[1].supersedes = None
        /\ Cardinality(entries) = 2

\* --- C14: any retroactive tampering is detected.  After a rewriting of an
\* entry with a recomputed entry_hash, a deletion from the middle or a
\* truncation of the tail, the next verify_chain returns valid = false.
HistoryChanged == original # << >> /\ original[1] # entries

C14_AnyTamperingDetected ==
    (HistoryChanged /\ verifyResult # NoVerify) => ~verifyResult.valid

\* --- C20: the audit tool agrees with verify_chain.  run_audit returns True
\* exactly when verify_chain on the store it audited returns valid = true, and
\* the process exits with status 0 exactly then.
C20_AuditAgrees ==
    \A p \in Procs :
        result[p].status \in {"True", "False"}
           => /\ (result[p].status = "True") <=> verify_chain(entries).valid
              /\ (ExitStatus(result[p].status = "True") = 0) <=> verify_chain(entries).valid

\* --- C18: hash determinism and order independence.  Computing the hash of a
\* tuple again gives the digest it gave before, and two tuples with the same
\* logical content (equal fields, content dicts equal as dicts whatever the
\* order their keys are held in, at any depth) get the same digest.
RECURSIVE SameValue(_, _)
SameValue(x, y) ==
    IF x.t = "dict" /\ y.t = "dict"
    THEN /\ {kv[1] : kv \in {x.v[i] : i \in 1..Len(x.v)}} = {kv[1] : kv \in {y.v[i] : i \in 1..Len(y.v)}}
         /\ \A i \in 1..Len(x.v), j \in 1..Len(y.v) :
               x.v[i][1] = y.v[j][1] => SameValue(x.v[i][2], y.v[j][2])
    ELSE x = y

SameTuple(a, b) ==
    /\ [a EXCEPT !.content = << >>] = [b EXCEPT !.content = << >>]
    /\ SameValue(Dict(a.content), Dict(b.content))

Computed(i) == digests # << >> /\ digests[i] # << >>

C18_HashDeterminism ==
    /\ [](\A i, j \in 1..NumTuples :
            (Computed(i) /\ Computed(j) /\ SameTuple(tuples[i], tuples[j]))
               => digests[i] = digests[j])
    /\ [][\A i \in 1..NumTuples :
            (Compute(i) /\ Computed(i)) => digests'[i] = digests[i]]_vars

\* the same nested content held in two key orders, both hashed
C18_Witness ==
    /\ Computed(1) /\ Computed(2)
    /\ tuples[1].content = ContentNested
    /\ tuples[2].content = ContentNestedSorted
    /\ digests[1] = digests[2]

\* --- C19 as stated: any two tuples that differ in at least one of the ten
\* hashed fields get different hash inputs, hence different digests.
C19_Original ==
    \A i, j \in 1..NumTuples :
        (Computed(i) /\ Computed(j) /\ ~SameTuple(tuples[i], tuples[j]))
           => digests[i] # digests[j]

\* --- C19: content sensitivity.  Two tuples whose contents hold JSON values
\* only and that differ in at least one of the ten hashed fields get different
\* hash inputs, hence different digests.
RECURSIVE JsonNative(_)
JsonNative(x) ==
    IF x.t = "dict" THEN \A i \in 1..Len(x.v) : JsonNative(x.v[i][2])
    ELSE x.t # "obj"

C19_ContentSensitivity ==
    \A i, j \in 1..NumTuples :
        (/\ Computed(i) /\ Computed(j)
         /\ JsonNative(Dict(tuples[i].content)) /\ JsonNative(Dict(tuples[j].content))
         /\ ~SameTuple(tuples[i], tuples[j]))
           => digests[i] # digests[j]

C19_Witness ==
    /\ Computed(1) /\ Computed(2)
    /\ tuples[1] = BaseTuple
    /\ tuples[2] = [BaseTuple EXCEPT !.emergency_designation = TRUE]
    /\ digests[1] # digests[2]

\* --- C21: supersedes only points backward.  Every stored entry whose
\* supersedes is set names the id of a stored entry with a strictly smaller
\* sequence_number: never itself, a later entry or an entry that is not there.
C21_SupersedesBackward ==
    \A e \in entries :
        e.supersedes # None
           => \E o \in entries : /\ o.id = e.supersedes
                                 /\ o.sequence_number < e.sequence_number

C21_Witness ==
    \E e \in entries :
        /\ e.sequence_number = 2
        /\ \E o \in entries : o.id = e.supersedes /\ o.sequence_number = 1

C23_GetLatest ==
    [][\A limit \in 0..MaxLimit :
          (GetLatest(limit) /\ tableExists)
             => LET r == latest'.rows
                    returned == {r[i] : i \in 1..Len(r)}
                IN  /\ ~latest'.raised
                    /\ Len(r) = Min(limit, Cardinality(entries))
                    /\ returned \subseteq entries
                    /\ \A i \in 1..Len(r), j \in 1..Len(r) :
                          i < j => r[i].sequence_number > r[j].sequence_number
                    /\ \A e \in entries \ returned, x \in returned :
                          e.sequence_number < x.sequence_number
                    /\ limit = Cardinality(entries) => returned = entries
                    /\ entries' = entries /\ tableExists' = tableExists]_vars

\* a read of fewer entries than the chain holds
C23_Witness ==
    /\ Cardinality(entries) = 3
    /\ Len(latest.rows) = 2
    /\ latest.rows[1].sequence_number = 2

\* --- C24: forbidden has highest priority.  Whatever the action and the
\* dollar amount, the decision is FORBIDDEN when the tier id is unknown or the
\* action is in the tier's forbidden_actions, also when the action is in
\* autonomous_actions or requires_approval as well.
C24_ForbiddenFirst ==
    permission # NoPermission
       => ((\/ permission.tier_id \notin DOMAIN tiers
            \/ permission.action_type \in tiers[permission.tier_id].forbidden_actions)
              => permission.decision = "forbidden")

\* a forbidden action that the same tier also lists as autonomous and as
\* requiring approval
C24_Witness ==
    /\ permission.decision = "forbidden"
    /\ permission.tier_id \in DOMAIN tiers
    /\ permission.action_type \in tiers[permission.tier_id].forbidden_actions
    /\ permission.action_type \in tiers[permission.tier_id].autonomous_actions
    /\ permission.action_type \in tiers[permission.tier_id].requires_approval
    /\ permission.dollar_amount # << >>

\* --- C25 as stated: AUTHORIZED only for an action in autonomous_actions and
\* in neither other list; an action in none of the three lists yields
\* REQUIRES_APPROVAL; is_allowed iff AUTHORIZED.
Listed(tier, a) ==
    a \in tier.autonomous_actions \cup tier.requires_approval \cup tier.forbidden_actions

C25_Original ==
    (permission # NoPermission /\ permission.tier_id \in DOMAIN tiers)
       => LET tier == tiers[permission.tier_id]
              a == permission.action_type
          IN  /\ permission.decision = "authorized"
                    => /\ a \in tier.autonomous_actions
                       /\ a \notin tier.forbidden_actions
                       /\ a \notin tier.requires_approval
              /\ ~Listed(tier, a) => permission.decision = "requires_approval"
              /\ is_allowed(permission) <=> permission.decision = "authorized"

\* --- C25: default deny.  AUTHORIZED only for an action in autonomous_actions
\* and in neither other list; an action in none of the three lists yields
\* EXCEEDS_IRREVERSIBLE_THRESHOLD when a dollar amount above the tier's
\* positive threshold is given and REQUIRES_APPROVAL otherwise; is_allowed iff
\* AUTHORIZED.
AboveThreshold(tier, amount) ==
    amount # << >> /\ tier.irreversible_threshold > 0 /\ amount[1] > tier.irreversible_threshold

C25_DefaultDeny ==
    permission # NoPermission
       => /\ is_allowed(permission) <=> permission.decision = "authorized"
          /\ permission.tier_id \notin DOMAIN tiers => ~is_allowed(permission)
          /\ permission.tier_id \in DOMAIN tiers
                => LET tier == tiers[permission.tier_id]
                       a == permission.action_type
                   IN  /\ permission.decision = "authorized"
                             => /\ a \in tier.autonomous_actions
                                /\ a \notin tier.forbidden_actions
                                /\ a \notin tier.requires_approval
                       /\ ~Listed(tier, a)
                             => permission.decision =
                                   IF AboveThreshold(tier, permission.dollar_amount)
                                   THEN "exceeds_irreversible_threshold"
                                   ELSE "requires_approval"

\* an action no list names, checked with an amount above the threshold
C25_Witness ==
    /\ permission.tier_id \in DOMAIN tiers
    /\ ~Listed(tiers[permission.tier_id], permission.action_type)
    /\ AboveThreshold(tiers[permission.tier_id], permission.dollar_amount)
    /\ permission.decision = "exceeds_irreversible_threshold"
    /\ ~is_allowed(permission)

\* --- C26: deliberative-cycle phase order.  Every step of every manager
\* operation leaves a session's phase where it is or moves it to the next of
\* opening, deliberation, vote, record, closed; a new session starts in
\* opening.
C26_PhaseOrder ==
    [][\A id \in DOMAIN active_sessions' :
          IF id \in DOMAIN active_sessions
          THEN LET before == PhaseIndex(active_sessions[id].phase)
                   after == PhaseIndex(active_sessions'[id].phase)
               IN  after = before \/ after = before + 1
          ELSE active_sessions'[id].phase = "opening"]_vars

\* a session that went all the way
C26_Witness ==
    \E id \in DOMAIN active_sessions :
        /\ active_sessions[id].phase = "closed"
        /\ active_sessions[id].outcome = "PASSED"
        /\ Len(active_sessions[id].submissions) = 1

\* --- C27: mandatory ledger logging.  Whenever execute_action returned
\* status "executed", its ledger_entry_id is the id of a ledger entry that
\* records the action.  (The code runs _execute first and reports "executed"
\* with ledger_entry_id None when there is no ledger service or append raises.)
C27_LoggedWhenExecuted ==
    agentResult.status = "executed" =>
        /\ agentResult.ledger_entry_id # None
        /\ \E e \in entries :
              /\ e.id = agentResult.ledger_entry_id
              /\ e.content = ActionRecordContent(frame.action_type)

\* --- C28: governance ordering in execute_action.  _execute has been invoked
\* in a call only if the permission check answered AUTHORIZED and at least one
\* citation was generated; a FORBIDDEN call ends raising
\* ConstitutionalActionError and a REQUIRES_APPROVAL or
\* EXCEEDS_IRREVERSIBLE_THRESHOLD call ends returning "escalated", both
\* without _execute.
C28_GovernanceOrder ==
    /\ agentPc = "executed" \/ frame.invoked =>
          /\ frame.perm_result.decision = "authorized"
          /\ Len(frame.citations) >= 1
    /\ agentPc = "idle" /\ frame.perm_result.decision = "forbidden" =>
          /\ agentResult.status = "ConstitutionalActionError"
          /\ ~frame.invoked
    /\ agentPc = "idle" /\ frame.perm_result.decision \in
            {"requires_approval", "exceeds_irreversible_threshold"} =>
          /\ agentResult.status = "escalated"
          /\ ~frame.invoked

\* an agent with a citation service has executed one action and was refused
\* or escalated on the next
C28_Witness ==
    /\ agentPc = "idle"
    /\ agent.citation_service
    /\ Len(action_history) = 1
    /\ agentResult.status \in {"ConstitutionalActionError", "escalated"}
    /\ frame.perm_result.decision \in {"forbidden", "exceeds_irreversible_threshold"}

\* --- C29: the two hash implementations agree.  For every entry field tuple
\* a LedgerEntry can hold, LedgerEntry.compute_hash and
\* LedgerService._compute_hash give the same digest.
C29_HashesAgree ==
    \A i \in DOMAIN tuples :
        digests[i] # << >> /\ model_digests[i] # << >> => digests[i] = model_digests[i]

\* both methods have hashed a tuple with a nested content dict and a tuple
\* that supersedes an entry
C29_Witness ==
    /\ \A i \in DOMAIN tuples : digests[i] # << >> /\ model_digests[i] # << >>
    /\ \E i \in DOMAIN tuples : tuples[i].content = ContentNested
    /\ \E i \in DOMAIN tuples : tuples[i].supersedes # None

\* --- C30: initialize is idempotent under concurrency.  However two
\* initialize calls on an empty store interleave, the store never holds more
\* than one genesis entry and neither call fails.  (In the code both calls can
\* miss the genesis block; the second commit then breaks the unique
\* sequence_number and initialize raises IntegrityError.)
InitializeFailed(r) ==
    /\ r.status = "IntegrityError"
    /\ r.entry # << >>
    /\ r.entry[1].sequence_number = 0

C30_ConcurrentInitialize ==
    /\ Cardinality({e \in entries : e.sequence_number = 0}) <= 1
    /\ \A p \in Procs : ~InitializeFailed(result[p])

\* --- C31: irreversible-action threshold.  A check_permission call for a
\* known tier whose dollar_amount is above the tier's irreversible_threshold
\* never answers AUTHORIZED: it answers EXCEEDS_IRREVERSIBLE_THRESHOLD unless
\* the action is forbidden or requires approval.  (The code skips the
\* comparison when the threshold is 0, so a tier with threshold 0 authorizes
\* an autonomous action of any amount.)
C31_ThresholdBlocks ==
    (/\ permission # NoPermission
     /\ permission.tier_id \in DOMAIN tiers
     /\ permission.dollar_amount # << >>
     /\ permission.dollar_amount[1] > tiers[permission.tier_id].irreversible_threshold)
       => LET tier == tiers[permission.tier_id]
              a == permission.action_type
          IN  /\ permission.decision # "authorized"
              /\ (a \notin tier.forbidden_actions /\ a \notin tier.requires_approval)
                    => permission.decision = "exceeds_irreversible_threshold"

\* --- C32: phase gating.  submit_position records a submission only in
\* DELIBERATION and cast_vote a vote only in VOTE; for an unknown session or in
\* any other phase the call raises ValueError and changes no session; the
\* votes, submissions and outcome of a CLOSED session never change.
C32_PhaseGating ==
    [][/\ \A id \in SessionIds \cup {UnknownSessionId}, m \in Members :
             /\ SubmitPosition(id, m) =>
                   IF id \in DOMAIN active_sessions /\ active_sessions[id].phase = "deliberation"
                   THEN /\ cycleResult' = "ok"
                        /\ active_sessions'[id].submissions =
                              Append(active_sessions[id].submissions, m)
                   ELSE /\ cycleResult' = "ValueError"
                        /\ active_sessions' = active_sessions
             /\ \A position \in VotePositions :
                   CastVote(id, m, position) =>
                      IF id \in DOMAIN active_sessions /\ active_sessions[id].phase = "vote"
                      THEN cycleResult' = "ValueError" => active_sessions' = active_sessions
                      ELSE /\ cycleResult' = "ValueError"
                           /\ active_sessions' = active_sessions
       /\ \A id \in DOMAIN active_sessions :
             /\ active_sessions'[id].submissions # active_sessions[id].submissions
                   => active_sessions[id].phase = "deliberation"
             /\ active_sessions'[id].votes # active_sessions[id].votes
                   => active_sessions[id].phase = "vote"
             /\ active_sessions[id].phase = "closed"
                   => active_sessions'[id] = active_sessions[id]]_vars

\* a call was refused on a closed session that holds a submission and votes
C32_Witness ==
    \E id \in DOMAIN active_sessions :
        /\ active_sessions[id].phase = "closed"
        /\ cycleResult = "ValueError"
        /\ Len(active_sessions[id].submissions) = 1
        /\ Len(active_sessions[id].votes) = 2

\* --- C33: one vote per member.  cycle.votes never holds two votes of one
\* member; a cast_vote by a member who has voted raises ValueError and leaves
\* the session as it is.
HasVoted(cycle, m) == \E i \in 1..Len(cycle.votes) : cycle.votes[i].member_id = m

C33_OneVotePerMember ==
    /\ [](\A id \in DOMAIN active_sessions :
            \A i, j \in 1..Len(active_sessions[id].votes) :
               active_sessions[id].votes[i].member_id = active_sessions[id].votes[j].member_id
                  => i = j)
    /\ [][\A id \in DOMAIN active_sessions, m \in Members, position \in VotePositions :
            (CastVote(id, m, position) /\ HasVoted(active_sessions[id], m))
               => /\ cycleResult' = "ValueError"
                  /\ active_sessions' = active_sessions]_vars

\* a member's second vote was refused while the session was voting
C33_Witness ==
    \E id \in DOMAIN active_sessions :
        /\ active_sessions[id].phase = "vote"
        /\ cycleResult = "ValueError"
        /\ Len(active_sessions[id].votes) = 1

\* --- C34: deliberation floor.  The deadline of a session is opened_at plus 7
\* days, or plus 24 hours for an emergency session; a session moves from
\* DELIBERATION to VOTE only at or after its deadline or by a forced
\* advance_to_vote, and a non-forced advance_to_vote before the deadline
\* raises ValueError and changes nothing.
C34_DeliberationFloor ==
    /\ [](\A id \in DOMAIN active_sessions :
            active_sessions[id].deliberation_deadline =
               active_sessions[id].opened_at +
                  (IF active_sessions[id].session_type = "emergency" THEN 24 ELSE 7 * 24))
    /\ [][\A id \in DOMAIN active_sessions :
            /\ (active_sessions[id].phase = "deliberation" /\ active_sessions'[id].phase = "vote")
                  => \/ now >= active_sessions[id].deliberation_deadline
                     \/ AdvanceToVote(id, TRUE)
            /\ (/\ AdvanceToVote(id, FALSE)
                /\ active_sessions[id].phase = "deliberation"
                /\ now < active_sessions[id].deliberation_deadline)
                  => /\ cycleResult' = "ValueError"
                     /\ active_sessions' = active_sessions]_vars

\* a regular session opened a day late is voting on the day of its deadline
C34_Witness ==
    \E id \in DOMAIN active_sessions :
        /\ active_sessions[id].phase = "vote"
        /\ active_sessions[id].session_type = "regular"
        /\ active_sessions[id].opened_at = 24
        /\ now = active_sessions[id].deliberation_deadline

WithoutAbstentions(votes) == SelectSeq(votes, LAMBDA v : v.position # "abstain")

C36_AbstentionsDoNotCount ==
    [][(CloseSessionClose /\ cyclePc # << >>) =>
          active_sessions'[cyclePc[2]].outcome =
             Outcome(WithoutAbstentions(active_sessions[cyclePc[2]].votes), cyclePc[5], cyclePc[4])]_vars

\* C37: whenever a chain verification reports valid = false, in the
\* orchestrator's health check or in the Ledger Custodian's verify action, an
\* emergency of type integrity_threat is activated, and the escalation alters
\* no entry of the ledger.
C37_IntegrityEscalates ==
    [][/\ (OrchestratorHealthCheck /\ ~verifyResult'.valid)
           => /\ Len(history') = Len(history) + 1
              /\ history'[Len(history')].trigger_type = "integrity_threat"
              /\ history'[Len(history')].id \in active_emergencies'
       /\ (CustodianRecord /\ ~custodianPc[1].valid)
           => \E i \in 1..Len(history') : history'[i].trigger_type = "integrity_threat"
       /\ (OrchestratorHealthCheck \/ CustodianVerifyChain \/ CustodianRecord)
           => entries' = entries]_vars

ExpiresAt(id) == history[id].expires_at

\* C38: every activation expires emergency_duration_hours after it was
\* activated; get_active_emergencies returns exactly the emergencies it holds
\* whose expires_at is in the future and drops the expired ones;
\* is_emergency_active is true iff that result is not empty; history keeps
\* every activation.
C38_AutomaticExpiry ==
    /\ [](\A i \in 1..Len(history) :
            history[i].expires_at
              = history[i].activated_at + DEFAULT_EMERGENCY_DURATION_HOURS)
    /\ [][/\ GetActiveEmergencies
              => /\ {emergencyResult'.value[i] : i \in 1..Len(emergencyResult'.value)}
                      = {id \in active_emergencies : ExpiresAt(id) > now}
                 /\ Len(emergencyResult'.value)
                      = Cardinality({id \in active_emergencies : ExpiresAt(id) > now})
                 /\ active_emergencies' = {id \in active_emergencies : ExpiresAt(id) > now}
          /\ IsEmergencyActive
              => /\ emergencyResult'.value
                      = ({id \in active_emergencies : ExpiresAt(id) > now} # {})
                 /\ active_emergencies' = {id \in active_emergencies : ExpiresAt(id) > now}
          /\ Len(history') >= Len(history)
          /\ SubSeq(history', 1, Len(history)) = history]_vars

\* a call that returned the one unexpired emergency and dropped the expired one
C38_Witness ==
    /\ emergencyResult.op = "get_active_emergencies"
    /\ Len(history) = 2
    /\ emergencyResult.value = << 2 >>
    /\ active_emergencies = {2}
    /\ now >= ExpiresAt(1)
    /\ now < ExpiresAt(2)

\* the emergency period of e has concluded, by expiry or by deactivate
Concluded(e) == now >= e.expires_at \/ e.id \notin active_emergencies

\* C39: get_pending_reviews returns every emergency whose period has concluded,
\* by expiry or by an explicit deactivate, and whose review is not completed,
\* and returns no emergency that is still held and unexpired.
C39_PendingReviews ==
    [][GetPendingReviews
       => \A i \in 1..Len(history) :
            LET returned == \E k \in 1..Len(emergencyResult'.value) :
                               emergencyResult'.value[k] = history[i].id
            IN  /\ (Concluded(history[i]) /\ ~history[i].review_completed) => returned
                /\ (history[i].id \in active_emergencies /\ now < history[i].expires_at)
                     => ~returned]_vars

\* the part of C39 that holds: the expired ones are returned, the held
\* unexpired ones are not
PendingReviewsByExpiry ==
    [][GetPendingReviews
       => \A i \in 1..Len(history) :
            LET returned == \E k \in 1..Len(emergencyResult'.value) :
                               emergencyResult'.value[k] = history[i].id
            IN  /\ (now >= history[i].expires_at /\ ~history[i].review_completed) => returned
                /\ (history[i].id \in active_emergencies /\ now < history[i].expires_at)
                     => ~returned]_vars

\* the member has responded to notice n
HasResponded(n) == n.member_response # "None"

\* C40: enforce sets a notice's status to "enforced" only if the notice is an
\* emergency notice, the member has responded, or the response deadline
\* (issued_at + response_period_hours) has passed; when none of the three
\* holds it raises ValueError and changes nothing; submit_response on an
\* enforced notice raises ValueError and changes nothing.
C40_DueProcessBeforeEnforcement ==
    [][\A id \in DOMAIN active_notices :
         LET n == active_notices[id]
             allowed == \/ n.is_emergency
                        \/ HasResponded(n)
                        \/ now >= n.issued_at + response_period_hours
         IN  /\ (n.status # "enforced" /\ active_notices'[id].status = "enforced")
                 => allowed
             /\ Enforce(id)
                 => IF noticeResult'.raised = "None"
                    THEN allowed /\ active_notices'[id].status = "enforced"
                    ELSE active_notices' = active_notices
             /\ (Enforce(id) /\ ~allowed)
                 => noticeResult'.raised = "ValueError" /\ active_notices' = active_notices
             /\ (SubmitResponse(id) /\ n.status = "enforced")
                 => noticeResult'.raised = "ValueError" /\ active_notices' = active_notices]_vars

\* an ordinary notice was enforced after its deadline without a response, and
\* a response to it was then refused
C40_Witness ==
    /\ noticeResult = [op |-> "submit_response", notice_id |-> 1, raised |-> "ValueError"]
    /\ 1 \in DOMAIN active_notices
    /\ ~active_notices[1].is_emergency
    /\ ~HasResponded(active_notices[1])
    /\ active_notices[1].status = "enforced"
    /\ now >= active_notices[1].response_deadline

====
